---- MODULE Spec2Model ----
(***************************************************************************)
(* Verification model of the GoLD_ray path tracer: ray/scene intersection  *)
(* (Sphere, HittableList, BVHNode, AABB) and the path integrator           *)
(* (PathIntegrator::Li) with its materials.                                *)
(*                                                                         *)
(* Geometry lives on an integer grid.  Sphere centres and ray origins have *)
(* even coordinates, every sphere has radius 2 and ray directions are the  *)
(* six unit axis vectors, so that every quantity the intersection code     *)
(* computes (discriminant, square root, roots, slab distances) is an exact *)
(* integer.  RAY_EPSILON is 1 in these units: smaller than every non-zero  *)
(* distance of the grid, as 1e-5 is in a scene of unit-sized spheres.      *)
(***************************************************************************)
EXTENDS Integers, Sequences, FiniteSets, TLC

VARIABLES
    objects,      \* HittableList::objects : the spheres in insertion order
    bvh,          \* the BVHNode tree built from objects (Null before)
    ray,          \* the caller's Ray of the current query, as it is now
    ray0,         \* the same ray as it was constructed, before any hit call
    bvhOut,       \* outcome of BVHNode::hit on the ray (NoOut before the call)
    listOut,      \* outcome of HittableList::hit on the ray (NoOut before)
    \* ---- PathIntegrator ----
    maxDepth,     \* m_maxDepth
    env,          \* m_env: "null" (no environment map) or "valid"
    pc,           \* position in Li: "idle", "loop", "emit", "nee", "sample", "done"
    depth,        \* the loop counter of Li
    L,            \* accumulated radiance: the terms added so far, in order
    beta,         \* throughput
    lastPdf,      \* pdf of the previous BSDF sample
    lastSpecular, \* whether the previous BSDF sample was specular
    hasLastBsdf,  \* whether a previous BSDF sample exists
    curRay,       \* r of Li: the current ray of the path (identity of the Ray value)
    hitMemo,      \* what scene.hit answers for the current ray, once traced
    curRec,       \* rec of Li: the SurfaceInteraction of the current hit
    bsdfSample,   \* the last result of Material::sample
    neeDraw,      \* the values drawn by the last next-event estimation
    count,        \* calls made by this Li: iterations, scene.hit, shadow, env samples
    \* ---- AABB ----
    aabb,         \* the AABB the operations are applied to
    aabbRay,      \* the ray passed to AABB::intersect
    aabbIv,       \* the interval [tMin, tMax] passed to AABB::intersect
    aabbOut,      \* the result of the last AABB operation (NoBoxOut before)
    \* ---- Dielectric ----
    glass,        \* a sphere whose material is a Dielectric
    glassRay,     \* the ray of the path that meets the sphere
    glassRec,     \* the SurfaceInteraction Sphere::hit filled in (NoGlassRec before)
    glassOut,     \* what Dielectric::sample derived from rec and wo (NoGlassOut before)
    \* ---- Film and PathIntegrator::render ----
    film,         \* Film::m_pixels, indexed from 0 by y * m_width + x
    lastCall,     \* the arguments of the last Film::setPixel call by a client
    rng,          \* position of the thread_local generator in its seeded stream
    spp,          \* m_spp
    scene,        \* the scene: the pixel whose radiance is corrupt, and how
    order,        \* the order in which the pixels are processed
    rpc,          \* position in render: "idle", "loop", "done"
    pixelsDone,   \* number of pixels this render has processed
    cerr,         \* number of diagnostic lines written to std::cerr
    detected,     \* number of times a NaN/Inf check has fired (history)
    stores,       \* per film location, the setPixel stores of this render (history)
    run,          \* which render this is: 1 or 2
    film1,        \* the film the first render left (NoFilm before)
    procMode,     \* the second render runs in the "same" or in a "new" process
    \* ---- Distribution1D and Distribution2D ----
    dist1,        \* a Distribution1D (NoDist1 before construction)
    out1,         \* the last Distribution1D::sampleContinuous call (NoOut1 before)
    dist2,        \* a Distribution2D (NoDist2 before construction)
    out2,         \* the last Distribution2D::sampleContinuous call and the pdf
                  \* evaluated at its uv (NoOut2 before)
    \* ---- IORInterpolator ----
    n_map,        \* loadCSV: the n rows read, wavelength -> n
    k_map,        \* loadCSV: the k rows read, wavelength -> k
    data_,        \* IORInterpolator::data_
    \* ---- MIS weights ----
    mis,          \* two pdfs of one direction and the weights Li gives them
    \* ---- BVHNode constructor ----
    ctor          \* one construction: the object list, the range asked for, the
                  \* constructor calls in progress and how the construction ended

travVars == <<objects, bvh, ray, ray0, bvhOut, listOut>>

liVars == <<maxDepth, env, pc, depth, L, beta, lastPdf, lastSpecular, hasLastBsdf,
           curRay, hitMemo, curRec, bsdfSample, neeDraw, count>>

boxVars == <<aabb, aabbRay, aabbIv, aabbOut>>

glassVars == <<glass, glassRay, glassRec, glassOut>>

renderVars == <<film, lastCall, rng, spp, scene, order, rpc, pixelsDone, cerr, detected, stores,
               run, film1, procMode>>

utilVars == <<dist1, out1, dist2, out2, n_map, k_map, data_, mis, ctor>>

vars == <<objects, bvh, ray, ray0, bvhOut, listOut,
          maxDepth, env, pc, depth, L, beta, lastPdf, lastSpecular, hasLastBsdf,
          curRay, hitMemo, curRec, bsdfSample, neeDraw, count,
          aabb, aabbRay, aabbIv, aabbOut,
          glass, glassRay, glassRec, glassOut,
          film, lastCall, rng, spp, scene, order, rpc, pixelsDone, cerr, detected, stores,
          run, film1, procMode,
          dist1, out1, dist2, out2, n_map, k_map, data_, mis, ctor>>

\* what an action of one part of the program leaves alone in the others
otherThanTrav == <<liVars, boxVars, glassVars, renderVars, utilVars>>
otherThanLi == <<travVars, boxVars, glassVars, renderVars, utilVars>>
otherThanBox == <<travVars, liVars, glassVars, renderVars, utilVars>>
otherThanGlass == <<travVars, liVars, boxVars, renderVars, utilVars>>
otherThanRender == <<travVars, liVars, boxVars, glassVars, utilVars>>
otherThanUtil == <<travVars, liVars, boxVars, glassVars, renderVars>>

\* ---------------------------------------------------------------- bounds
MaxSpheres == 3
\* largest m_maxDepth explored
MaxDepthBound == 3
\* fixed-point resolution of pdfs, cosines and Fresnel terms: 1.0 is PdfOne
PdfOne == 2
\* the film is FilmWidth x FilmHeight pixels
FilmWidth == 2
FilmHeight == 2
\* samples per pixel are at most
MaxSpp == 2

\* -------------------------------------------------------------- constants
INFINITY_VAL == 1000000
RAY_EPSILON == 1
INTERSECT_TOLERANCE_INV == 1000000
SphereRadius == 2

Centers == { <<0,0,0>>, <<4,0,0>>, <<2,0,0>>, <<0,4,0>>, <<0,0,4>> }
Origins == { <<-4,0,0>>, <<8,0,0>>, <<2,-4,0>>, <<0,8,0>>, <<0,0,-4>>,
             <<0,0,0>>, <<2,4,0>>, <<0,4,8>> }
Directions == { <<1,0,0>>, <<-1,0,0>>, <<0,1,0>>, <<0,-1,0>>,
                <<0,0,1>>, <<0,0,-1>> }

\* ------------------------------------------------------------ vector math
Abs(x) == IF x < 0 THEN -x ELSE x
Min2(a, b) == IF a < b THEN a ELSE b
Max2(a, b) == IF a < b THEN b ELSE a
VAdd(a, b) == <<a[1] + b[1], a[2] + b[2], a[3] + b[3]>>
VSub(a, b) == <<a[1] - b[1], a[2] - b[2], a[3] - b[3]>>
VScale(a, s) == <<a[1] * s, a[2] * s, a[3] * s>>
VDivS(a, s) == <<a[1] \div s, a[2] \div s, a[3] \div s>>
VNeg(a) == <<-a[1], -a[2], -a[3]>>
Dot(a, b) == a[1] * b[1] + a[2] * b[2] + a[3] * b[3]
VMin(a, b) == <<Min2(a[1], b[1]), Min2(a[2], b[2]), Min2(a[3], b[3])>>
VMax(a, b) == <<Max2(a[1], b[1]), Max2(a[2], b[2]), Max2(a[3], b[3])>>

\* std::sqrt on the discriminants of the grid (exact: 0 or a perfect square)
Sqrt(n) == CHOOSE s \in 0..n : s * s <= n /\ (s + 1) * (s + 1) > n

\* ------------------------------------------------------------------- Ray
\* Ray(o, d, tMin = RAY_EPSILON): tMax starts at infinity
\* (the direction is d / dScale, componentwise; dScale is 1 except for the
\* rays of the AABB machine with components below INTERSECT_TOLERANCE)
MkRay(o, d) ==
    [o |-> o, d |-> d, dScale |-> 1, tMin |-> RAY_EPSILON, tMax |-> INFINITY_VAL]
RayAt(r, t) == VAdd(r.o, VScale(r.d, t))

\* ------------------------------------------------------------------ AABB
MkAABB(pMin, pMax) == [min |-> pMin, max |-> pMax]

\* (an "empty" box that is the point at the origin)
EmptyAABB_Zero == MkAABB(<<0, 0, 0>>, <<0, 0, 0>>)

\* AABB::AABB(): min = +infinity, max = -infinity
EmptyAABB ==
    MkAABB(<<INFINITY_VAL, INFINITY_VAL, INFINITY_VAL>>,
           <<-INFINITY_VAL, -INFINITY_VAL, -INFINITY_VAL>>)

\* (a union that keeps only the first box)
AABBUnite_First(a, b) == a

\* AABB::unite
AABBUnite(a, b) == MkAABB(VMin(a.min, b.min), VMax(a.max, b.max))
AABBExtent(b) == VSub(b.max, b.min)

\* one axis of the slab loop: the interval after the axis, or NoInterval
\* when the loop returns false at this axis
NoInterval == [ok |-> FALSE, tMin |-> 0, tMax |-> 0]

\* (a slab loop that skips an axis the ray is parallel to)
SlabAxis_SkipParallel(box, r, axis, iv) ==
    LET direction == r.d[axis]
        origin == r.o[axis]
        t0 == IF direction < 0 THEN (box.max[axis] - origin) * direction
              ELSE (box.min[axis] - origin) * direction
        t1 == IF direction < 0 THEN (box.min[axis] - origin) * direction
              ELSE (box.max[axis] - origin) * direction
        lo == IF t0 > iv.tMin THEN t0 ELSE iv.tMin
        hi == IF t1 < iv.tMax THEN t1 ELSE iv.tMax
    IN  IF direction = 0 THEN iv
        ELSE IF hi < lo THEN NoInterval ELSE [ok |-> TRUE, tMin |-> lo, tMax |-> hi]

SlabAxis(box, r, axis, iv) ==
    LET origin == r.o[axis]
        direction == r.d[axis]
    IN  IF Abs(direction) * INTERSECT_TOLERANCE_INV < r.dScale
        THEN IF origin < box.min[axis] \/ origin > box.max[axis]
             THEN NoInterval ELSE iv
        ELSE LET invD == r.dScale \div direction
                 a0 == (box.min[axis] - origin) * invD
                 a1 == (box.max[axis] - origin) * invD
                 t0 == IF invD < 0 THEN a1 ELSE a0
                 t1 == IF invD < 0 THEN a0 ELSE a1
                 lo == IF t0 > iv.tMin THEN t0 ELSE iv.tMin
                 hi == IF t1 < iv.tMax THEN t1 ELSE iv.tMax
             IN  IF hi < lo THEN NoInterval ELSE [ok |-> TRUE, tMin |-> lo, tMax |-> hi]

AABBIntersect(box, r, tMin, tMax) ==
    LET i0 == [ok |-> TRUE, tMin |-> tMin, tMax |-> tMax]
        i1 == SlabAxis(box, r, 1, i0)
        i2 == IF i1.ok THEN SlabAxis(box, r, 2, i1) ELSE NoInterval
        i3 == IF i2.ok THEN SlabAxis(box, r, 3, i2) ELSE NoInterval
    IN  i3.ok

\* ---------------------------------------------------------------- Sphere
MkSphere(c, m) == [kind |-> "sphere", center |-> c, radius |-> SphereRadius, mat |-> m]

SphereBounds(s) ==
    LET rad == <<s.radius, s.radius, s.radius>>
    IN  MkAABB(VSub(s.center, rad), VAdd(s.center, rad))

\* SurfaceInteraction::setFaceNormal
SetFaceNormal(rayDir, geometricNormal) ==
    IF Dot(rayDir, geometricNormal) < 0 THEN geometricNormal ELSE VNeg(geometricNormal)

\* the record of one assignment to some ray's tMax
WriteEvent(old, new) ==
    [ev |-> "write", old |-> old, new |-> new, callerBox |-> MkAABB(<<0,0,0>>, <<0,0,0>>),
     targetBox |-> MkAABB(<<0,0,0>>, <<0,0,0>>), leafCall |-> FALSE, tMin |-> 0, tMax |-> 0]

\* a SurfaceInteraction nothing has been written to
NoRec == [t |-> -1, p |-> <<0,0,0>>, n |-> <<0,0,0>>, mat |-> 0]

\* (a range test that forgets the upper end of the interval)
RootOutOfRange_NoMax(root, r) == root < r.tMin

\* the range test on a root of the quadratic
RootOutOfRange(root, r) == root < r.tMin \/ r.tMax < root

\* Sphere::hit.  The result carries the hit flag, the record written on a
\* hit, the tMax of the ray object passed in as it is after the call (tMax
\* is mutable and is written through the const reference) and the trace of
\* the call: the writes to tMax.
SphereHit(s, r) ==
    LET oc == VSub(r.o, s.center)
        a == Dot(r.d, r.d)
        half_b == Dot(oc, r.d)
        c == Dot(oc, oc) - s.radius * s.radius
        discriminant == half_b * half_b - a * c
        miss == [hit |-> FALSE, rec |-> NoRec, tMax |-> r.tMax, log |-> <<>>]
    IN  IF a = 0 THEN miss
        ELSE IF discriminant < 0 THEN miss
        ELSE LET sqrtd == Sqrt(discriminant)
                 root1 == (-half_b - sqrtd) \div a
                 root2 == (-half_b + sqrtd) \div a
                 root == IF RootOutOfRange(root1, r) THEN root2 ELSE root1
             IN  IF RootOutOfRange(root1, r) /\ RootOutOfRange(root2, r) THEN miss
                 ELSE LET p == RayAt(r, root)
                          outwardNormal == VDivS(VSub(p, s.center), s.radius)
                      IN  [hit |-> TRUE,
                           rec |-> [t |-> root, p |-> p,
                                    n |-> SetFaceNormal(r.d, outwardNormal),
                                    mat |-> s.mat],
                           tMax |-> root,
                           log |-> << WriteEvent(r.tMax, root) >>]

\* --------------------------------------------------------------- BVHNode
Null == [kind |-> "null"]

\* Hittable::bounds by dynamic type
Bounds(h) == IF h.kind = "sphere" THEN SphereBounds(h) ELSE h.box

\* centre of the bounds of an object, (b.min + b.max) * 0.5
Centroid(h) == LET b == Bounds(h) IN VDivS(VAdd(b.min, b.max), 2)

\* the centroid bounding box of objs[i..Len(objs)], folded from (cmin, cmax)
RECURSIVE CentroidBox(_, _, _, _)
CentroidBox(objs, i, cmin, cmax) ==
    IF i > Len(objs) THEN MkAABB(cmin, cmax)
    ELSE CentroidBox(objs, i + 1, VMin(cmin, Centroid(objs[i])),
                                  VMax(cmax, Centroid(objs[i])))

\* the split axis (0, 1, 2) of a range of objects
SplitAxis(objs) ==
    LET inf == <<INFINITY_VAL, INFINITY_VAL, INFINITY_VAL>>
        e == AABBExtent(CentroidBox(objs, 1, inf, VNeg(inf)))
        axis1 == IF e[2] > e[1] THEN 1 ELSE 0
    IN  IF e[3] > (IF axis1 = 0 THEN e[1] ELSE e[2]) THEN 2 ELSE axis1

\* the comparator cmp of the constructor
Cmp(a, b, axis) == Centroid(a)[axis + 1] < Centroid(b)[axis + 1]

\* the results std::sort may leave: every permutation of the range that is
\* ordered by cmp (the sort is not stable, equal keys end in any order)
SortOutcomes(objs, axis) ==
    LET n == Len(objs)
        Perms == { f \in [1..n -> 1..n] : \A i, j \in 1..n : i # j => f[i] # f[j] }
    IN  { [i \in 1..n |-> objs[f[i]]] :
            f \in { g \in Perms : \A i, j \in 1..n :
                        i < j => ~Cmp(objs[g[j]], objs[g[i]], axis) } }

\* (a node whose box is that of its left child alone)
MkNode_LeftBox(l, r, axis) ==
    [kind |-> "node", left |-> l, right |-> r, splitAxis |-> axis, box |-> Bounds(l)]

\* the members a constructed BVHNode ends with: left, right, box
MkNode(l, r, axis) ==
    [kind |-> "node", left |-> l, right |-> r, splitAxis |-> axis,
     box |-> IF r = Null THEN Bounds(l) ELSE AABBUnite(Bounds(l), Bounds(r))]

\* BVHNode::BVHNode(objects, start, end) on the range objs (span >= 1):
\* the set of trees the constructor can build
RECURSIVE BVHBuild(_)
BVHBuild(objs) ==
    LET span == Len(objs)
        axis == SplitAxis(objs)
        mid == span \div 2
    IN  IF span = 1 THEN { MkNode(objs[1], Null, axis) }
        ELSE IF span = 2
        THEN { IF Cmp(objs[1], objs[2], axis)
               THEN MkNode(objs[1], objs[2], axis)
               ELSE MkNode(objs[2], objs[1], axis) }
        ELSE UNION { { MkNode(l, r, axis) :
                         l \in BVHBuild(SubSeq(sorted, 1, mid)),
                         r \in BVHBuild(SubSeq(sorted, mid + 1, span)) } :
                     sorted \in SortOutcomes(objs, axis) }

\* the record of one child->hit call made by a BVH node
CallEvent(node, target, r) ==
    [ev |-> "call", old |-> 0, new |-> 0, callerBox |-> node.box,
     targetBox |-> Bounds(target), leafCall |-> (node.right = Null),
     tMin |-> r.tMin, tMax |-> r.tMax]

\* (a node that never takes the early exit)
BoxRejects_Never(node, r) == FALSE

\* the early exit of BVHNode::hit
BoxRejects(node, r) == ~AABBIntersect(node.box, r, r.tMin, r.tMax)

\* localRay.tMax = closestSoFar before the second child
ClampSecond(r, closestSoFar) == closestSoFar

\* BVHNode::hit, and Hittable::hit dispatched on the dynamic type
RECURSIVE BVHHit(_, _), Hit(_, _)
Hit(h, r) == IF h.kind = "sphere" THEN SphereHit(h, r) ELSE BVHHit(h, r)

BVHHit(node, r) ==
    IF BoxRejects(node, r)
    THEN [hit |-> FALSE, rec |-> NoRec, tMax |-> r.tMax, log |-> <<>>]
    ELSE IF node.right = Null
    THEN \* the leaf passes r itself: what the primitive writes to r.tMax
         \* is written to the caller's ray
         LET res == Hit(node.left, r)
         IN  [res EXCEPT !.log = <<CallEvent(node, node.left, r)>> \o res.log]
    ELSE LET dirNeg == r.d[node.splitAxis + 1] < 0
             first == IF dirNeg THEN node.right ELSE node.left
             second == IF dirNeg THEN node.left ELSE node.right
             closest0 == r.tMax
             \* ---- 1st child ----
             ray1 == [r EXCEPT !.tMax = closest0]
             res1 == Hit(first, ray1)
             closest1 == IF res1.hit THEN res1.rec.t ELSE closest0
             rec1 == IF res1.hit THEN res1.rec ELSE NoRec
             \* ---- 2nd child ----
             ray2 == [ray1 EXCEPT !.tMax = ClampSecond(r, closest1)]
             res2 == Hit(second, ray2)
         IN  [hit |-> res1.hit \/ res2.hit,
              rec |-> IF res2.hit THEN res2.rec ELSE rec1,
              tMax |-> r.tMax,
              log |-> <<WriteEvent(r.tMax, closest0), CallEvent(node, first, ray1)>>
                      \o res1.log
                      \o <<WriteEvent(res1.tMax, ray2.tMax), CallEvent(node, second, ray2)>>
                      \o res2.log]

\* ---------------------------------------------------------- HittableList
\* the tMax a list entry is tested with
ListClamp(r, closestSoFar) == closestSoFar

\* one pass of the loop body of HittableList::hit on object obj; st holds
\* closestSoFar, hitAnything, the record and the trace so far
ListStep(obj, r, st) ==
    LET testRay == [r EXCEPT !.tMax = ListClamp(r, st.closestSoFar)]
        res == Hit(obj, testRay)
    IN  [closestSoFar |-> IF res.hit THEN res.rec.t ELSE st.closestSoFar,
         hitAnything |-> st.hitAnything \/ res.hit,
         rec |-> IF res.hit THEN res.rec ELSE st.rec,
         log |-> (st.log \o <<WriteEvent(r.tMax, testRay.tMax)>>) \o res.log]

\* HittableList::hit: the loop from object i on
RECURSIVE ListHitFrom(_, _, _, _)
ListHitFrom(objs, i, r, st) ==
    IF i > Len(objs)
    THEN [hit |-> st.hitAnything, rec |-> st.rec, tMax |-> r.tMax, log |-> st.log]
    ELSE ListHitFrom(objs, i + 1, r, ListStep(objs[i], r, st))

ListHit(objs, r) ==
    ListHitFrom(objs, 1, r, [closestSoFar |-> r.tMax, hitAnything |-> FALSE,
                             rec |-> NoRec, log |-> <<>>])

NoOut == [called |-> FALSE]
NoRay == [o |-> <<0,0,0>>, d |-> <<0,0,0>>, dScale |-> 1, tMin |-> 0, tMax |-> 0]

\* -------------------------------------------------------------- Spectrum
\* a Spectrum is three numerators c over a common denominator d
Spectrum(x, y, z) == [c |-> <<x, y, z>>, d |-> 1]
Black == Spectrum(0, 0, 0)
White == Spectrum(1, 1, 1)
Red == Spectrum(1, 0, 0)
Blue == Spectrum(0, 0, 1)

SpecMul(a, b) ==
    [c |-> <<a.c[1] * b.c[1], a.c[2] * b.c[2], a.c[3] * b.c[3]>>, d |-> a.d * b.d]
\* s * num / den
SpecScale(s, num, den) == [c |-> VScale(s.c, num), d |-> s.d * den]

\* isBlack: every component <= 0
IsBlack(s) == s.c[1] <= 0 /\ s.c[2] <= 0 /\ s.c[3] <= 0

\* ------------------------------------------------------------- Materials
Materials == { "Lambertian", "Mirror", "MirrorConductor", "RoughConductor",
               "DielectricSmooth", "DielectricRough", "DiffuseLight" }

\* the materials whose sample() returns delta lobes only
DeltaMaterials == { "Mirror", "MirrorConductor", "DielectricSmooth" }

\* Material::isSpecular and its overrides: MirrorConductor returns true,
\* Dielectric returns isSmooth(), RoughConductor returns false, the others
\* (Lambertian, Mirror, DiffuseLight) inherit the default, false
MatIsSpecular(m) == m \in { "MirrorConductor", "DielectricSmooth" }

\* Material::emitted: black but for DiffuseLight seen from its front side
Emitted(m, cosO) == IF m = "DiffuseLight" /\ cosO > 0 THEN White ELSE Black

\* Material::eval for a direction wi: the values it can return
EvalOutcomes(m) ==
    CASE m = "Lambertian" -> { Black, Red }
      [] m = "RoughConductor" -> { Black, Red }
      [] m = "DielectricRough" -> { Black, Blue }
      [] OTHER -> { Black }

\* Material::pdf for a direction wi with a non-black eval
PdfOutcomes(m) ==
    CASE m = "Lambertian" -> { PdfOne }
      [] m = "RoughConductor" -> { 0, PdfOne }
      [] m = "DielectricRough" -> { 0, PdfOne }
      [] OTHER -> { 0 }

\* std::nullopt, and a BSDFSample: f, pdf, the flags of the sampled lobe and,
\* standing for wi, the |cos| of wi to the normal; mat is the sampling class
\* and F the Fresnel term a dielectric chose its lobe with
NoSample == [valid |-> FALSE, mat |-> "none", f |-> Black, pdf |-> 0, flags |-> {},
             cosTheta |-> 0, F |-> 0]
MkSample(mat, f, pdf, flags, cosTheta, F) ==
    [valid |-> TRUE, mat |-> mat, f |-> f, pdf |-> pdf, flags |-> flags,
     cosTheta |-> cosTheta, F |-> F]

\* BSDFSample::isSpecular
IsSpecular(bs) == "Specular" \in bs.flags

\* thresholds of the form pdf < 10^-k on the fixed-point pdf
BelowE8(pdf) == pdf * 100000000 < PdfOne
AtMostE6(pdf) == pdf * 1000000 <= PdfOne

\* (a throughput update that divides by any pdf)
AboveE8_Always(pdf) == TRUE

\* pdf > 1e-8f
AboveE8(pdf) == pdf * 100000000 > PdfOne

\* (a mirror that leaves the pdf of BSDFSample at its default, 0)
MirrorSample_DefaultPdf(albedo) == MkSample("Mirror", albedo, 0, {"Specular", "Reflection"}, PdfOne, 0)

\* Mirror::sample: always a specular reflection with the dummy pdf 1
MirrorSample(albedo) == MkSample("Mirror", albedo, PdfOne, {"Specular", "Reflection"}, PdfOne, 0)

\* MirrorConductor::sample: rejected below the geometric surface
MirrorConductorSample(belowSurface, fresnel) ==
    IF belowSurface THEN NoSample
    ELSE MkSample("MirrorConductor", fresnel, PdfOne, {"Specular", "Reflection"}, PdfOne, 0)

\* Dielectric::sample, case A (smooth): F is the Fresnel reflectance, ux the
\* first random number, ior is 3/2 so that 1/etap^2 is 4/9 or 9/4
DielectricSmoothSample(F, ux, tir, entering) ==
    IF ux < F
    THEN MkSample("DielectricSmooth", White, F, {"Specular", "Reflection"}, PdfOne, F)
    ELSE IF tir THEN NoSample
    ELSE MkSample("DielectricSmooth",
                  IF entering THEN [c |-> <<4, 4, 4>>, d |-> 9]
                               ELSE [c |-> <<9, 9, 9>>, d |-> 4],
                  PdfOne - F, {"Specular", "Transmission"}, PdfOne, F)

\* Lambertian::sample: cosine-weighted, rejected in the lower hemisphere
LambertianSample(below, albedo, pdf) ==
    IF below THEN NoSample ELSE MkSample("Lambertian", albedo, pdf, {"Diffuse", "Reflection"},
                                         PdfOne, 0)

\* RoughConductor::sample: rejected on the geometric checks, on pdf <= 1e-6
RoughConductorSample(rejected, f, pdf) ==
    IF rejected \/ AtMostE6(pdf) THEN NoSample
    ELSE MkSample("RoughConductor", f, pdf, {"Glossy", "Reflection"}, PdfOne, 0)

\* Dielectric::sample, case B (rough): rejected on TIR, sidedness, pdf < 1e-8
DielectricRoughSample(rejected, f, pdf, cosTheta, reflect) ==
    IF rejected \/ BelowE8(pdf) THEN NoSample
    ELSE MkSample("DielectricRough", f, pdf,
                  {"Glossy", IF reflect THEN "Reflection" ELSE "Transmission"}, cosTheta, 0)

\* Material::sample by dynamic type: the results it can return
SampleOutcomes(m) ==
    CASE m = "Mirror" -> { MirrorSample(a) : a \in { Black, Red, Blue } }
      [] m = "MirrorConductor" ->
            { MirrorConductorSample(b, f) : b \in BOOLEAN, f \in { Black, Red } }
      [] m = "DielectricSmooth" ->
            { DielectricSmoothSample(F, ux, tir, en) :
                F \in 0..PdfOne, ux \in 0..(PdfOne - 1), tir \in BOOLEAN, en \in BOOLEAN }
      [] m = "Lambertian" ->
            { LambertianSample(b, a, pdf) :
                b \in BOOLEAN, a \in { Black, Red }, pdf \in { 0, PdfOne } }
      [] m = "RoughConductor" ->
            { RoughConductorSample(b, f, pdf) :
                b \in BOOLEAN, f \in { Black, Red }, pdf \in { 0, PdfOne } }
      [] m = "DielectricRough" ->
            { DielectricRoughSample(b, f, pdf, c, rf) :
                b \in BOOLEAN, f \in { Blue }, pdf \in { 0, PdfOne }, c \in { 0, PdfOne },
                rf \in BOOLEAN }
      [] OTHER -> { NoSample }

\* ---------------------------------------------------------------- EnvMap
\* EnvMap::eval(dir)
EnvEval == { Black, White }
\* EnvMap::pdf(dir)
EnvPdf == { 0, PdfOne }
\* EnvMap::sample(u, wi, pdfW): the radiance and the pdf; pdf 0 comes with black
EnvSamples == { [Le |-> Black, pdf |-> 0], [Le |-> Black, pdf |-> PdfOne],
                [Le |-> White, pdf |-> PdfOne] }

\* -------------------------------------------------------- PathIntegrator
\* the power heuristic a^2 / (a^2 + b^2), as numerator and denominator
PowerHeuristic(a, b) == <<a * a, a * a + b * b>>
One == <<1, 1>>

\* one `L += beta * value * w` of Li; a and b are the pdfs w was computed from
Term(kind, value, w, a, b) ==
    [kind |-> kind, depth |-> depth, ray |-> curRay, beta |-> beta, value |-> value,
     w |-> w, a |-> a, b |-> b]

\* (a loop that runs while depth <= m_maxDepth)
LoopGuard_OffByOne(d, md) == d <= md

\* the loop condition of Li
LoopGuard(d, md) == d < md

\* (a miss branch that weights whenever the last lobe was not specular)
UseMIS_IgnoreSpecular(hasLast, lastSpec) == hasLast

\* the miss branch weights the environment by MIS
UseMIS(hasLast, lastSpec) == hasLast /\ ~lastSpec

\* the MIS weight of the miss branch
MissWeight(a, b) == IF b > 0 /\ a > 0 THEN PowerHeuristic(a, b) ELSE One

\* (a next-event weight with the two pdfs exchanged)
NeeWeight_Swapped(pdfEnv, pdfBsdf) ==
    IF pdfBsdf > 0 THEN PowerHeuristic(pdfBsdf, pdfEnv) ELSE One

\* the MIS weight of next-event estimation
NeeWeight(pdfEnv, pdfBsdf) == IF pdfBsdf > 0 THEN PowerHeuristic(pdfEnv, pdfBsdf) ELSE One

NoMemo == [traced |-> FALSE, hit |-> FALSE, mat |-> "none", cosO |-> 0]
NoHit == [mat |-> "none", cosO |-> 0]
NoDraw == [sampled |-> FALSE, pdfEnv |-> 0, Le |-> Black, shadowTraced |-> FALSE,
           occluded |-> FALSE, f |-> Black, pdfBsdf |-> 0, added |-> FALSE]
ZeroCount == [iter |-> 0, primary |-> 0, shadow |-> 0, envSample |-> 0]

\* the locals of Li at its entry
LiEntry ==
    /\ depth = 0
    /\ L = <<>>
    /\ beta = White
    /\ lastPdf = 0
    /\ lastSpecular = FALSE
    /\ hasLastBsdf = FALSE
    /\ curRay = 0
    /\ hitMemo = NoMemo
    /\ curRec = NoHit
    /\ bsdfSample = NoSample
    /\ neeDraw = NoDraw
    /\ count = ZeroCount

LiIdle ==
    /\ maxDepth = 0
    /\ env = "null"
    /\ pc = "idle"
    /\ LiEntry

TravIdle ==
    /\ objects = <<>>
    /\ bvh = Null
    /\ ray = NoRay
    /\ ray0 = NoRay
    /\ bvhOut = NoOut
    /\ listOut = NoOut

NoBoxOut == [op |-> "none", b |-> EmptyAABB, ab |-> EmptyAABB, ba |-> EmptyAABB,
             result |-> FALSE]

BoxIdle ==
    /\ aabb = EmptyAABB
    /\ aabbRay = NoRay
    /\ aabbIv = [tMin |-> 0, tMax |-> 0]
    /\ aabbOut = NoBoxOut

NoGlassRec == [hit |-> FALSE, rec |-> NoRec, outwardNormal |-> <<0, 0, 0>>]
NoGlassOut == [sampled |-> FALSE, cosThetaO |-> 0, entering |-> FALSE,
               eta |-> <<1, 1>>, etap |-> <<1, 1>>, n_eff |-> <<0, 0, 0>>]

GlassIdle ==
    /\ glass = MkSphere(<<0, 0, 0>>, 0)
    /\ glassRay = NoRay
    /\ glassRec = NoGlassRec
    /\ glassOut = NoGlassOut

\* a pixel value: whether its components are finite, and the samples it
\* is the average of (each named by pixel and first random number drawn)
Pixel(kind, samples) == [kind |-> kind, samples |-> samples]

\* Spectrum(0.0)
BlackPixel == Pixel("finite", <<>>)

\* Film::Film(width, height): every pixel black
NewFilm == [loc \in 0..(FilmWidth * FilmHeight - 1) |-> BlackPixel]

NoFilm == [loc \in 0..(FilmWidth * FilmHeight - 1) |-> Pixel("none", <<>>)]
NoCall == [called |-> FALSE, x |-> 0, y |-> 0, radiance |-> BlackPixel]
NoStores == [loc \in 0..(FilmWidth * FilmHeight - 1) |-> 0]
NoScene == [bad |-> -1, kind |-> "finite", liDraws |-> 0]

RenderIdle ==
    /\ film = NewFilm
    /\ lastCall = NoCall
    /\ rng = 0
    /\ spp = 0
    /\ scene = NoScene
    /\ order = <<>>
    /\ rpc = "idle"
    /\ pixelsDone = 0
    /\ cerr = 0
    /\ detected = 0
    /\ stores = NoStores
    /\ run = 1
    /\ film1 = NoFilm
    /\ procMode = "same"

\* the parts of the program a specification does not run stay idle
NoDist1 == [func |-> <<>>, cdf |-> <<>>, funcInt |-> <<0, 1>>]
NoOut1 == [called |-> FALSE]
NoDist2 == [pConditionalV |-> <<>>, pMarginal |-> NoDist1]
NoOut2 == [called |-> FALSE]

\* a std::map with no entry
EmptyMap == [w \in {} |-> 0]

DistIdle ==
    /\ dist1 = NoDist1
    /\ out1 = NoOut1
    /\ dist2 = NoDist2
    /\ out2 = NoOut2

IorIdle ==
    /\ n_map = EmptyMap
    /\ k_map = EmptyMap
    /\ data_ = <<>>

NoMis == [a |-> 0, b |-> 0, weighed |-> FALSE, nee |-> <<1, 1>>, miss |-> <<1, 1>>]
MisIdle == mis = NoMis
NoCtor == [objs |-> <<>>, start |-> 0, end |-> 0, stack |-> <<>>, status |-> "idle",
           deepest |-> 0]
CtorIdle == ctor = NoCtor

UtilIdle == DistIdle /\ IorIdle /\ MisIdle /\ CtorIdle

IdleExceptTrav == LiIdle /\ BoxIdle /\ GlassIdle /\ RenderIdle /\ UtilIdle
IdleExceptLi == TravIdle /\ BoxIdle /\ GlassIdle /\ RenderIdle /\ UtilIdle
IdleExceptBox == TravIdle /\ LiIdle /\ GlassIdle /\ RenderIdle /\ UtilIdle
IdleExceptGlass == TravIdle /\ LiIdle /\ BoxIdle /\ RenderIdle /\ UtilIdle
IdleExceptRender == TravIdle /\ LiIdle /\ BoxIdle /\ GlassIdle /\ UtilIdle
IdleExceptUtil == TravIdle /\ LiIdle /\ BoxIdle /\ GlassIdle /\ RenderIdle

\* ------------------------------------------------ the intersection machine

\* the scenes: one to MaxSpheres spheres, each with a material of its own
\* at distinct centres
Scenes ==
    UNION { { [i \in 1..n |-> MkSphere(cs[i], i)] :
                cs \in { f \in [1..n -> Centers] :
                            \A i, j \in 1..n : i # j => f[i] # f[j] } } :
            n \in 1..MaxSpheres }

TravInit ==
    /\ objects \in Scenes
    /\ bvh = Null
    /\ ray = NoRay
    /\ ray0 = NoRay
    /\ bvhOut = NoOut
    /\ listOut = NoOut
    /\ IdleExceptTrav

\* std::make_shared<BVHNode>(objects, 0, objects.size())
BuildBVH ==
    /\ bvh = Null
    /\ bvh' \in BVHBuild(objects)
    /\ UNCHANGED <<objects, ray, ray0, bvhOut, listOut, otherThanTrav>>

\* the caller constructs a ray
NewRay ==
    /\ bvh # Null
    /\ ray = NoRay \/ (bvhOut.called /\ listOut.called)
    /\ \E o \in Origins, d \in Directions :
          /\ ray' = MkRay(o, d)
          /\ ray0' = MkRay(o, d)
    /\ bvhOut' = NoOut
    /\ listOut' = NoOut
    /\ UNCHANGED <<objects, bvh, otherThanTrav>>

\* what a caller sees of a hit call
Outcome(res, before) ==
    [called |-> TRUE, hit |-> res.hit, rec |-> res.rec, log |-> res.log,
     tMaxBefore |-> before, tMaxAfter |-> res.tMax]

\* Scene::hit with the BVH as aggregate
HitBVH ==
    /\ ray # NoRay
    /\ ~bvhOut.called
    /\ LET res == BVHHit(bvh, ray)
       IN  /\ bvhOut' = Outcome(res, ray.tMax)
           /\ ray' = [ray EXCEPT !.tMax = res.tMax]
    /\ UNCHANGED <<objects, bvh, ray0, listOut, otherThanTrav>>

\* Scene::hit with the HittableList as aggregate
HitList ==
    /\ ray # NoRay
    /\ ~listOut.called
    /\ LET res == ListHit(objects, ray)
       IN  /\ listOut' = Outcome(res, ray.tMax)
           /\ ray' = [ray EXCEPT !.tMax = res.tMax]
    /\ UNCHANGED <<objects, bvh, ray0, bvhOut, otherThanTrav>>

TravNext == BuildBVH \/ NewRay \/ HitBVH \/ HitList

SpecTrav == TravInit /\ [][TravNext]_vars

\* ------------------------------------------------- the integrator machine
LiInit ==
    /\ IdleExceptLi
    /\ maxDepth \in 0..MaxDepthBound
    /\ env \in { "null", "valid" }
    /\ pc = "loop"
    /\ LiEntry

\* render calls Li again for the next sample
LiCall ==
    /\ pc = "done"
    /\ pc' = "loop"
    /\ depth' = 0 /\ L' = <<>> /\ beta' = White
    /\ lastPdf' = 0 /\ lastSpecular' = FALSE /\ hasLastBsdf' = FALSE
    /\ curRay' = 0 /\ hitMemo' = NoMemo /\ curRec' = NoHit
    /\ bsdfSample' = NoSample /\ neeDraw' = NoDraw /\ count' = ZeroCount
    /\ UNCHANGED <<maxDepth, env, otherThanLi>>

\* the loop condition fails: return L
LiLoopExit ==
    /\ pc = "loop"
    /\ ~LoopGuard(depth, maxDepth)
    /\ pc' = "done"
    /\ UNCHANGED <<maxDepth, env, depth, L, beta, lastPdf, lastSpecular, hasLastBsdf,
                   curRay, hitMemo, curRec, bsdfSample, neeDraw, count, otherThanLi>>

\* what scene.hit can answer for the current ray: anything for a ray not
\* traced yet, the same answer again for a ray traced before
HitAnswers ==
    IF hitMemo.traced THEN { hitMemo }
    ELSE { [traced |-> TRUE, hit |-> FALSE, mat |-> "none", cosO |-> 0] } \cup
         { [traced |-> TRUE, hit |-> TRUE, mat |-> m, cosO |-> c] :
             m \in Materials, c \in { 0, PdfOne } }

\* 1. scene.hit(r, rec), with the miss branch
LiIntersect ==
    /\ pc = "loop"
    /\ LoopGuard(depth, maxDepth)
    /\ \E ans \in HitAnswers :
         /\ hitMemo' = ans
         /\ count' = [count EXCEPT !.iter = @ + 1, !.primary = @ + 1]
         /\ IF ~ans.hit
            THEN /\ pc' = "done"
                 /\ curRec' = curRec
                 /\ IF env = "null" THEN L' = L
                    ELSE \E envL \in EnvEval :
                           IF UseMIS(hasLastBsdf, lastSpecular)
                           THEN \E pdfEnv \in EnvPdf :
                                  L' = Append(L, Term("env", envL,
                                                      MissWeight(lastPdf, pdfEnv),
                                                      lastPdf, pdfEnv))
                           ELSE L' = Append(L, Term("env", envL, One, 0, 0))
            ELSE /\ pc' = "emit"
                 /\ curRec' = [mat |-> ans.mat, cosO |-> ans.cosO]
                 /\ L' = L
    /\ UNCHANGED <<maxDepth, env, depth, beta, lastPdf, lastSpecular, hasLastBsdf,
                   curRay, bsdfSample, neeDraw, otherThanLi>>

\* 2. L += beta * emitted(rec, -r.d)
LiEmit ==
    /\ pc = "emit"
    /\ L' = Append(L, Term("emit", Emitted(curRec.mat, curRec.cosO), One, 0, 0))
    /\ pc' = "nee"
    /\ UNCHANGED <<maxDepth, env, depth, beta, lastPdf, lastSpecular, hasLastBsdf,
                   curRay, hitMemo, curRec, bsdfSample, neeDraw, count, otherThanLi>>

\* 2.5. next-event estimation on the environment
LiNEE ==
    /\ pc = "nee"
    /\ IF env # "null" /\ ~MatIsSpecular(curRec.mat)
       THEN \E s \in EnvSamples, occluded \in BOOLEAN,
               f \in EvalOutcomes(curRec.mat), pdfBsdf \in PdfOutcomes(curRec.mat) :
              LET shadow == s.pdf > 0 /\ ~IsBlack(s.Le)
                  evaluated == shadow /\ ~occluded
                  skip == evaluated /\ IsBlack(f)          \* `continue`
                  add == evaluated /\ ~IsBlack(f)
              IN  /\ ~shadow => (~occluded /\ f = Black /\ pdfBsdf = 0)
                  /\ (shadow /\ occluded) => (f = Black /\ pdfBsdf = 0)
                  /\ skip => pdfBsdf = 0
                  /\ neeDraw' = [sampled |-> TRUE, pdfEnv |-> s.pdf, Le |-> s.Le,
                                 shadowTraced |-> shadow, occluded |-> occluded,
                                 f |-> f, pdfBsdf |-> pdfBsdf, added |-> add]
                  /\ count' = [count EXCEPT !.envSample = @ + 1,
                                            !.shadow = IF shadow THEN @ + 1 ELSE @]
                  /\ L' = IF add
                          THEN Append(L, Term("nee", SpecMul(f, s.Le),
                                              NeeWeight(s.pdf, pdfBsdf), s.pdf, pdfBsdf))
                          ELSE L
                  /\ pc' = IF skip THEN "loop" ELSE "sample"
                  /\ depth' = IF skip THEN depth + 1 ELSE depth
       ELSE /\ neeDraw' = NoDraw
            /\ pc' = "sample"
            /\ UNCHANGED <<count, L, depth>>
    /\ UNCHANGED <<maxDepth, env, beta, lastPdf, lastSpecular, hasLastBsdf,
                   curRay, hitMemo, curRec, bsdfSample, otherThanLi>>

\* 3.-5. sample the BSDF, update the throughput, spawn the next ray
LiSample ==
    /\ pc = "sample"
    /\ \E bs \in SampleOutcomes(curRec.mat) :
         /\ bsdfSample' = bs
         /\ IF ~bs.valid
            THEN /\ pc' = "done"
                 /\ UNCHANGED <<beta, lastPdf, lastSpecular, hasLastBsdf,
                                curRay, hitMemo, depth>>
            ELSE /\ lastPdf' = bs.pdf
                 /\ lastSpecular' = IsSpecular(bs)
                 /\ hasLastBsdf' = TRUE
                 /\ IF ~IsSpecular(bs) /\ ~AboveE8(bs.pdf)
                    THEN /\ pc' = "done"
                         /\ UNCHANGED <<beta, curRay, hitMemo, depth>>
                    ELSE /\ beta' = IF IsSpecular(bs) THEN SpecMul(beta, bs.f)
                                    ELSE SpecScale(SpecMul(beta, bs.f), bs.cosTheta, bs.pdf)
                         /\ IF IsBlack(beta')
                            THEN /\ pc' = "done"
                                 /\ UNCHANGED <<curRay, hitMemo, depth>>
                            ELSE /\ curRay' = curRay + 1
                                 /\ hitMemo' = NoMemo
                                 /\ depth' = depth + 1
                                 /\ pc' = "loop"
    /\ UNCHANGED <<maxDepth, env, L, curRec, neeDraw, count, otherThanLi>>

LiNext == LiCall \/ LiLoopExit \/ LiIntersect \/ LiEmit \/ LiNEE \/ LiSample

SpecLi == LiInit /\ [][LiNext]_vars

\* ------------------------------------------------ claims on the traversal
BothCalled ==
    /\ bvhOut.called /\ listOut.called
    /\ bvhOut.tMaxBefore = listOut.tMaxBefore

\* the spheres of the scene that the fresh ray hits at distance t
HittersAt(t) ==
    { i \in 1..Len(objects) :
        LET res == SphereHit(objects[i], ray0) IN res.hit /\ res.rec.t = t }

\* the write and the call events of a traversal
Events(out) == IF out.called THEN { out.log[i] : i \in 1..Len(out.log) } ELSE {}
Writes(out) == { e \in Events(out) : e.ev = "write" }
Calls(out) == { e \in Events(out) : e.ev = "call" }

\* C1 (as claimed): on the same ray the BVH and the linear scan agree on
\* hit/miss and, on a hit, on t, on the position and on the material.
C1_SameHitAndMaterial ==
    BothCalled =>
        /\ bvhOut.hit = listOut.hit
        /\ bvhOut.hit => /\ bvhOut.rec.t = listOut.rec.t
                          /\ bvhOut.rec.p = listOut.rec.p
                          /\ bvhOut.rec.mat = listOut.rec.mat

\* C1 (amended): on the same ray the BVH and the linear scan agree on
\* hit/miss and, on a hit, on t and on the position; each reports the
\* material of a sphere hit at that closest t, hence the same material
\* whenever a single sphere is hit at the closest distance.
C1_SameClosestHit ==
    BothCalled =>
        /\ bvhOut.hit = listOut.hit
        /\ bvhOut.hit => /\ bvhOut.rec.t = listOut.rec.t
                          /\ bvhOut.rec.p = listOut.rec.p
                          /\ bvhOut.rec.mat \in HittersAt(bvhOut.rec.t)
                          /\ listOut.rec.mat \in HittersAt(bvhOut.rec.t)
                          /\ Cardinality(HittersAt(bvhOut.rec.t)) = 1
                                => bvhOut.rec = listOut.rec

\* C1 witness: a three-sphere BVH and the list both hit, and the closest
\* sphere is neither the first nor the only one the ray passes through.
C1_Witness ==
    /\ BothCalled /\ bvhOut.hit /\ listOut.hit
    /\ Len(objects) = 3
    /\ Cardinality(HittersAt(bvhOut.rec.t)) = 1
    /\ bvhOut.rec.mat # 1
    /\ \E i \in 1..Len(objects) : /\ SphereHit(objects[i], ray0).hit
                                  /\ SphereHit(objects[i], ray0).rec.t > bvhOut.rec.t

\* C8: every assignment to a ray's tMax made during one traversal stores a
\* value less than or equal to the value tMax had before the assignment.
C8_TMaxNeverIncreases ==
    \A e \in Writes(bvhOut) \cup Writes(listOut) : e.new <= e.old

\* C8 witness: a traversal of an internal BVH node and a list traversal in
\* which tMax was written and strictly shrunk.
C8_Witness ==
    /\ BothCalled
    /\ bvh.right # Null
    /\ \E e \in Writes(bvhOut) : e.new < e.old
    /\ \E e \in Writes(listOut) : e.new < e.old /\ e.old < INFINITY_VAL

\* C9: when BVHNode::hit or HittableList::hit returns, the tMax of the ray
\* passed in by the caller has the value it had before the call.
C9_CallerRayUnchanged ==
    /\ bvhOut.called => bvhOut.tMaxAfter = bvhOut.tMaxBefore
    /\ listOut.called => listOut.tMaxAfter = listOut.tMaxBefore

\* C10 (as claimed): the traversal calls hit only on children whose own
\* bounding box passes the slab test against the ray's current interval.
C10_VisitedBoxPasses ==
    \A e \in Calls(bvhOut) : AABBIntersect(e.targetBox, ray0, e.tMin, e.tMax)

\* C10 (amended): a node calls hit on a child only while the node's own box
\* passes the slab test against the ray's current [tMin, tMax], the interval
\* already shrunk by the closer hits found earlier in the traversal; the
\* child's own box is not tested before the call.
C10_CallerBoxPasses ==
    \A e \in Calls(bvhOut) : AABBIntersect(e.callerBox, ray0, e.tMin, e.tMax)

\* C10 witness: a three-sphere BVH whose second child is called with an
\* interval shrunk by a hit in the first child.
C10_Witness ==
    /\ bvhOut.called /\ bvhOut.hit
    /\ Len(objects) = 3
    /\ \E e \in Calls(bvhOut) : ~e.leafCall /\ e.tMax < INFINITY_VAL

\* ------------------------------------------------ claims on the integrator
LastTerm(seq) == seq[Len(seq)]

\* C2: an iteration of Li in which the ray hit a surface ends in the BSDF
\* sampling step, and when the loop goes on after it the ray has been
\* replaced by a newly spawned one.
C2_HitIterationReplacesRay ==
    [][ (pc \in { "emit", "nee", "sample" } /\ pc' = "loop")
            => (pc = "sample" /\ curRay' # curRay) ]_vars

\* C3: on a miss with an environment map Li adds exactly one term, beta
\* times the environment radiance, weighted by the power heuristic of the
\* previous BSDF pdf and the environment pdf exactly when a previous BSDF
\* sample exists and was not specular, unweighted for the camera ray and
\* after a specular bounce; and the path ends at the miss.
C3_MissWeighting ==
    [][ (pc = "loop" /\ hitMemo'.traced /\ ~hitMemo'.hit /\ count' # count)
            => /\ pc' = "done"
               /\ env = "null" => L' = L
               /\ env # "null" =>
                    /\ Len(L') = Len(L) + 1
                    /\ SubSeq(L', 1, Len(L)) = L
                    /\ LastTerm(L').kind = "env"
                    /\ LastTerm(L').beta = beta
                    /\ LastTerm(L').w =
                         IF hasLastBsdf /\ ~lastSpecular
                         THEN (IF LastTerm(L').b > 0 /\ lastPdf > 0
                               THEN <<lastPdf * lastPdf,
                                      lastPdf * lastPdf + LastTerm(L').b * LastTerm(L').b>>
                               ELSE <<1, 1>>)
                         ELSE <<1, 1>> ]_vars

\* C3 witness: a path ended by a miss after a non-specular bounce, its
\* environment term carrying a power-heuristic weight below 1.
C3_Witness ==
    /\ pc = "done" /\ hitMemo.traced /\ ~hitMemo.hit
    /\ hasLastBsdf /\ ~lastSpecular
    /\ L # <<>> /\ LastTerm(L).kind = "env" /\ LastTerm(L).w # <<1, 1>>

\* C4: at a hit on a delta material next-event estimation draws no
\* environment sample, traces no shadow ray and adds nothing to L; a
\* direct-light term is added only for an environment sample with pdf > 0
\* and non-black radiance, an unoccluded shadow ray and a non-black BSDF.
C4_NoNEEAtDeltaMaterial ==
    [][ pc = "nee"
            => /\ curRec.mat \in DeltaMaterials =>
                    /\ count'.envSample = count.envSample
                    /\ count'.shadow = count.shadow
                    /\ L' = L
               /\ L' # L =>
                    /\ neeDraw'.pdfEnv > 0
                    /\ ~IsBlack(neeDraw'.Le)
                    /\ ~neeDraw'.occluded
                    /\ ~IsBlack(neeDraw'.f) ]_vars

\* the BSDF sample signals that there is no valid scattering
NoValidScattering(bs) ==
    \/ ~bs.valid
    \/ ~IsSpecular(bs) /\ bs.pdf = 0
    \/ IsBlack(bs.f)

\* C5: when the BSDF sample signals no valid scattering (no sample, pdf 0 on
\* a non-specular lobe, or a black f) the path ends in that iteration: no
\* ray is spawned and nothing is added to L.
C5_SampleFailureEndsPath ==
    [][ (pc = "sample" /\ NoValidScattering(bsdfSample'))
            => (pc' = "done" /\ curRay' = curRay /\ depth' = depth /\ L' = L) ]_vars

\* C5 witness: a path ended by a non-specular sample with a non-black f and
\* pdf 0, after at least one bounce.
C5_Witness ==
    /\ pc = "done" /\ depth > 0
    /\ bsdfSample.valid /\ ~IsSpecular(bsdfSample)
    /\ bsdfSample.pdf = 0 /\ ~IsBlack(bsdfSample.f)

\* C6 (as claimed): every BSDFSample whose lobe is flagged specular has pdf 1.
C6_SpecularPdfIsOne ==
    (bsdfSample.valid /\ IsSpecular(bsdfSample)) => bsdfSample.pdf = PdfOne

\* C6 (amended): a specular BSDFSample of Mirror and of MirrorConductor has
\* pdf 1; a specular BSDFSample of the smooth Dielectric has the probability
\* its lobe was chosen with, F for reflection and 1 - F for transmission,
\* which is positive and at most 1.
C6_SpecularPdf ==
    (bsdfSample.valid /\ IsSpecular(bsdfSample)) =>
        /\ bsdfSample.mat \in { "Mirror", "MirrorConductor", "DielectricSmooth" }
        /\ bsdfSample.mat # "DielectricSmooth" => bsdfSample.pdf = PdfOne
        /\ bsdfSample.mat = "DielectricSmooth" =>
             /\ bsdfSample.pdf = IF "Reflection" \in bsdfSample.flags
                                 THEN bsdfSample.F ELSE PdfOne - bsdfSample.F
             /\ bsdfSample.pdf > 0 /\ bsdfSample.pdf <= PdfOne

\* C6 witness: a specular sample of a mirror has been drawn.
C6_Witness ==
    bsdfSample.valid /\ IsSpecular(bsdfSample) /\ bsdfSample.mat = "Mirror"

\* position inside one iteration, for the progress measure
PcRank(p) == CASE p = "loop" -> 0 [] p = "emit" -> 1 [] p = "nee" -> 2
               [] p = "sample" -> 3 [] OTHER -> 0
Measure(d, p) == 4 * d + PcRank(p)

\* C7: Li runs at most maxDepth iterations, hence at most maxDepth scene
\* intersections and at most maxDepth shadow-ray intersections, and it
\* terminates: every step either returns or advances a measure bounded by
\* 4 * maxDepth + 3.
C7_BoundedLoop ==
    /\ [](/\ depth <= maxDepth
          /\ count.iter <= maxDepth
          /\ count.primary <= maxDepth
          /\ count.shadow <= maxDepth)
    /\ [][ pc # "done" => (pc' = "done" \/ Measure(depth', pc') > Measure(depth, pc)) ]_vars

\* C7 witness: a path that used all its iterations, each with a shadow ray.
C7_Witness ==
    /\ pc = "done" /\ maxDepth = MaxDepthBound
    /\ count.iter = maxDepth /\ count.shadow = maxDepth

\* ------------------------------------------------ claims on the BVH boxes
\* box a encloses box b
Encloses(a, b) == \A k \in 1..3 : a.min[k] <= b.min[k] /\ b.max[k] <= a.max[k]

\* the nodes of a tree and the primitives below a Hittable
RECURSIVE NodesOf(_), PrimsOf(_)
NodesOf(h) ==
    IF h.kind # "node" THEN {}
    ELSE {h} \cup NodesOf(h.left) \cup (IF h.right = Null THEN {} ELSE NodesOf(h.right))
PrimsOf(h) ==
    IF h.kind # "node" THEN {h}
    ELSE PrimsOf(h.left) \cup (IF h.right = Null THEN {} ELSE PrimsOf(h.right))

\* C11: in every BVH the constructor builds, the box of each node encloses
\* the bounding box of every primitive below it and is the union of the
\* bounds of its children (the bounds of the one child at a leaf).
C11_NodeBoxEnclosesSubtree ==
    bvh # Null =>
        \A n \in NodesOf(bvh) :
            /\ \A q \in PrimsOf(n) : Encloses(n.box, SphereBounds(q))
            /\ n.right = Null => n.box = Bounds(n.left)
            /\ n.right # Null =>
                 /\ n.box.min = VMin(Bounds(n.left).min, Bounds(n.right).min)
                 /\ n.box.max = VMax(Bounds(n.left).max, Bounds(n.right).max)

\* C11 witness: a tree whose root has an inner node as a child has been built.
C11_Witness ==
    bvh # Null /\ bvh.right # Null /\ bvh.right.kind = "node"
    /\ Cardinality(PrimsOf(bvh)) = 3

\* ------------------------------------------------------- the AABB machine
\* AABB operations on their own: the boxes, rays and intervals they are
\* applied to.  Ray directions have components in {-1, 0, 1}, so that the
\* reciprocal 1 / direction of the slab test is exact.
Boxes ==
    { MkAABB(<<-2, -2, -2>>, <<2, 2, 2>>), MkAABB(<<0, 0, 0>>, <<2, 2, 2>>),
      MkAABB(<<-2, 0, -2>>, <<0, 2, 2>>), MkAABB(<<0, -2, -2>>, <<2, 0, 0>>) }
BoxOrigins == { <<x, y, z>> : x \in { -4, 0, 4 }, y \in { -4, 0, 4 }, z \in { -4, 1 } }
BoxDirections == { <<x, y, z>> : x \in { -1, 0, 1 }, y \in { -1, 0, 1 }, z \in { -1, 0, 1 } }
BoxIntervals ==
    { [tMin |-> a, tMax |-> b] : a \in { -1, 0, RAY_EPSILON }, b \in { 0, 8, INFINITY_VAL } }

\* HittableList::bounds()
RECURSIVE UniteFrom(_, _, _)
UniteFrom(objs, i, b) ==
    IF i > Len(objs) THEN b ELSE UniteFrom(objs, i + 1, AABBUnite(b, Bounds(objs[i])))

ListBounds(objs) ==
    IF objs = <<>> THEN MkAABB(<<0, 0, 0>>, <<0, 0, 0>>)
    ELSE UniteFrom(objs, 2, Bounds(objs[1]))

\* a ray with explicit members (the Ray constructor only sets o and d)
BoxRay(o, d, iv) ==
    [o |-> o, d |-> d, dScale |-> 1, tMin |-> iv.tMin, tMax |-> iv.tMax]

\* direction components of magnitude 1 / TinyScale are below
\* INTERSECT_TOLERANCE and not zero
TinyScale == 2 * INTERSECT_TOLERANCE_INV

\* the queries: rays with direction components -1, 0, 1, and rays with
\* components -1 / TinyScale, 0, 1 / TinyScale
BoxQuery ==
    /\ aabb \in Boxes \cup { EmptyAABB, ListBounds(<<>>) }
    /\ aabbIv \in BoxIntervals
    /\ \E o \in BoxOrigins, d \in BoxDirections, sc \in { 1, TinyScale } :
         aabbRay = [BoxRay(o, d, aabbIv) EXCEPT !.dScale = sc]

BoxInit ==
    /\ BoxQuery
    /\ aabbOut = NoBoxOut
    /\ IdleExceptBox

\* box.intersect(r, tMin, tMax)
BoxIntersectCall ==
    /\ aabbOut.op = "none"
    /\ aabbOut' = [NoBoxOut EXCEPT !.op = "intersect",
                     !.result = AABBIntersect(aabb, aabbRay, aabbIv.tMin, aabbIv.tMax)]
    /\ UNCHANGED <<aabb, aabbRay, aabbIv, otherThanBox>>

\* AABB::unite(box, b) and AABB::unite(b, box)
BoxUniteCall ==
    /\ aabbOut.op = "none"
    /\ \E b \in Boxes :
         aabbOut' = [NoBoxOut EXCEPT !.op = "unite", !.b = b,
                       !.ab = AABBUnite(aabb, b), !.ba = AABBUnite(b, aabb)]
    /\ UNCHANGED <<aabb, aabbRay, aabbIv, otherThanBox>>

BoxNext == BoxIntersectCall \/ BoxUniteCall

SpecBox == BoxInit /\ [][BoxNext]_vars

\* C12: the default-constructed AABB is the empty set: uniting it with a
\* non-degenerate box b, on either side, gives b, and intersect on it is
\* false for every ray and every interval.
C12_EmptyBoxIsEmptySet ==
    aabb = EmptyAABB =>
        /\ aabbOut.op = "unite" => (aabbOut.ab = aabbOut.b /\ aabbOut.ba = aabbOut.b)
        /\ aabbOut.op = "intersect" => ~aabbOut.result

\* C12 witness: intersect has been called on the empty box with a ray that
\* is parallel to no axis, over the interval of a fresh ray.
C12_Witness ==
    /\ aabb = EmptyAABB /\ aabbOut.op = "intersect"
    /\ \A k \in 1..3 : aabbRay.d[k] # 0
    /\ aabbIv = [tMin |-> RAY_EPSILON, tMax |-> INFINITY_VAL]

\* on axis k the origin is outside the slab of the box and the direction
\* does not lead towards it
OutsideAndAway(box, r, k) ==
    \/ r.o[k] < box.min[k] /\ r.d[k] <= 0
    \/ r.o[k] > box.max[k] /\ r.d[k] >= 0

\* on axis k the ray is parallel to the slab and its origin is outside it
ParallelMiss(box, r, k) ==
    r.d[k] = 0 /\ (r.o[k] < box.min[k] \/ r.o[k] > box.max[k])

\* C13: intersect is false for a ray with a zero direction component on an
\* axis on which its origin is outside the slab, over every interval, and
\* for a ray whose origin is outside the slab of some axis with a direction
\* that leads away from it, over every interval with tMin >= 0.
C13_MissingRaysRejected ==
    (aabbOut.op = "intersect" /\ aabb # EmptyAABB) =>
        /\ (\E k \in 1..3 : ParallelMiss(aabb, aabbRay, k)) => ~aabbOut.result
        /\ (aabbIv.tMin >= 0 /\ \E k \in 1..3 : OutsideAndAway(aabb, aabbRay, k))
              => ~aabbOut.result

\* C13 witness: a parallel miss on the last axis only, the ray passing
\* through the slabs of the two other axes.
C13_Witness ==
    /\ aabbOut.op = "intersect" /\ aabb # EmptyAABB
    /\ ParallelMiss(aabb, aabbRay, 3)
    /\ aabbRay.d[1] # 0 /\ ~ParallelMiss(aabb, aabbRay, 2)
    /\ ~OutsideAndAway(aabb, aabbRay, 1) /\ ~OutsideAndAway(aabb, aabbRay, 2)
    /\ aabbIv = [tMin |-> RAY_EPSILON, tMax |-> INFINITY_VAL]

\* -------------------------------------------------- the Dielectric machine
\* the index of refraction of the glass, and its reciprocal, as fractions
Ior == <<3, 2>>
InvIor == <<2, 3>>

\* the first lines of Dielectric::sample: the side of the surface the path
\* is on, derived from the shading normal of the record and wo
DielectricSide(rec, wo) ==
    LET cosThetaO == Dot(rec.n, wo)
        entering == cosThetaO > 0
    IN  [sampled |-> TRUE, cosThetaO |-> cosThetaO, entering |-> entering,
         eta |-> IF entering THEN InvIor ELSE Ior,
         etap |-> IF entering THEN Ior ELSE InvIor,
         n_eff |-> IF entering THEN rec.n ELSE VNeg(rec.n)]

GlassInit ==
    /\ glass \in { MkSphere(c, 1) : c \in Centers }
    /\ glassRay \in { MkRay(o, d) : o \in Origins, d \in Directions }
    /\ glassRec = NoGlassRec
    /\ glassOut = NoGlassOut
    /\ IdleExceptGlass

\* scene.hit(r, rec) of Li on the glass sphere
GlassHit ==
    /\ ~glassRec.hit
    /\ LET res == SphereHit(glass, glassRay)
       IN  /\ res.hit
           /\ glassRec' = [hit |-> TRUE, rec |-> res.rec,
                           outwardNormal |->
                               VDivS(VSub(res.rec.p, glass.center), glass.radius)]
           /\ glassRay' = [glassRay EXCEPT !.tMax = res.tMax]
    /\ UNCHANGED <<glass, glassOut, otherThanGlass>>

\* rec.matPtr->sample(rec, -r.d, u) of Li, up to the choice of the lobe
GlassSample ==
    /\ glassRec.hit
    /\ ~glassOut.sampled
    /\ glassOut' = DielectricSide(glassRec.rec, VNeg(glassRay.d))
    /\ UNCHANGED <<glass, glassRay, glassRec, otherThanGlass>>

GlassNext == GlassHit \/ GlassSample

SpecGlass == GlassInit /\ [][GlassNext]_vars

\* the ray met the surface from within the sphere / from outside
HitFromWithin == glassRec.hit /\ Dot(glassRay.d, glassRec.outwardNormal) > 0
HitFromOutside == glassRec.hit /\ Dot(glassRay.d, glassRec.outwardNormal) < 0

\* C14: Dielectric::sample classifies a hit from within the sphere as
\* exiting (entering false, eta = ior, the normal flipped) and a hit from
\* outside as entering (eta = 1/ior), for wo = -(ray direction) and a record
\* whose normals setFaceNormal oriented.
C14_EnteringExiting ==
    glassOut.sampled =>
        /\ HitFromWithin => /\ ~glassOut.entering
                            /\ glassOut.eta = Ior
                            /\ glassOut.n_eff = VNeg(glassRec.rec.n)
        /\ HitFromOutside => /\ glassOut.entering
                             /\ glassOut.eta = InvIor

\* --------------------------------------------------------- the Film machine
\* (a bounds check that forgets the upper ends)
SetPixel_NoUpperCheck(f, x, y, radiance) ==
    IF x < 0 \/ y < 0 \/ (y * FilmWidth + x) \notin DOMAIN f THEN f
    ELSE [f EXCEPT ![y * FilmWidth + x] = radiance]

\* Film::setPixel(x, y, radiance) on the pixel vector f
SetPixel(f, x, y, radiance) ==
    IF x < 0 \/ x >= FilmWidth \/ y < 0 \/ y >= FilmHeight THEN f
    ELSE [f EXCEPT ![y * FilmWidth + x] = radiance]

\* the radiance a client stores
ClientPixels == { Pixel("finite", << <<0, 0, 0>> >>) }

FilmInit ==
    /\ film = NewFilm
    /\ lastCall = NoCall
    /\ rng = 0 /\ spp = 0 /\ scene = NoScene /\ order = <<>> /\ rpc = "idle"
    /\ pixelsDone = 0 /\ cerr = 0 /\ detected = 0 /\ stores = NoStores
    /\ run = 1 /\ film1 = NoFilm /\ procMode = "same"
    /\ IdleExceptRender

\* a client calls film.setPixel(x, y, radiance), in range or not
FilmSetPixel ==
    /\ \E x \in -1..FilmWidth, y \in -1..FilmHeight, c \in ClientPixels :
         /\ film' = SetPixel(film, x, y, c)
         /\ lastCall' = [called |-> TRUE, x |-> x, y |-> y, radiance |-> c]
    /\ UNCHANGED <<rng, spp, scene, order, rpc, pixelsDone, cerr, detected, stores,
                   run, film1, procMode, otherThanRender>>

FilmNext == FilmSetPixel

SpecFilm == FilmInit /\ [][FilmNext]_vars

\* the pixel at column x2 of row y2 of film f
PixelAt(f, x2, y2) == f[y2 * FilmWidth + x2]

\* C17: setPixel(x, y, c) with x outside [0, width) or y outside
\* [0, height) changes no pixel; with coordinates in range it sets the pixel
\* at (x, y) to c and changes no other pixel.
C17_SetPixelFrame ==
    [][ LET x == lastCall'.x
            y == lastCall'.y
            inRange == 0 <= x /\ x < FilmWidth /\ 0 <= y /\ y < FilmHeight
        IN  /\ DOMAIN film' = DOMAIN film
            /\ \A x2 \in 0..(FilmWidth - 1), y2 \in 0..(FilmHeight - 1) :
                 PixelAt(film', x2, y2) =
                     IF inRange /\ x2 = x /\ y2 = y THEN lastCall'.radiance
                     ELSE PixelAt(film, x2, y2) ]_vars

\* C17 witness: a call with x = width in row 0 has left a film whose last
\* pixel of row 0 holds the radiance of an earlier call and whose first
\* pixel of row 1 is still black.
C17_Witness ==
    /\ lastCall.called /\ lastCall.x = FilmWidth /\ lastCall.y = 0
    /\ PixelAt(film, FilmWidth - 1, 0) = lastCall.radiance
    /\ PixelAt(film, 0, 1) = BlackPixel

\* ------------------------------------------------------ the render machine
\* PathIntegrator::render on a FilmWidth x FilmHeight film.  Li is a
\* deterministic function of the camera ray and of the random numbers it
\* draws; a sample is named by its pixel and by the position in the
\* generator's stream of the first number drawn for it.  The scene fixes
\* which pixel (if any) gets a corrupt radiance and how many numbers Li draws.
NumPixels == FilmWidth * FilmHeight

\* the loops of render: rows j outside, columns i inside
Raster == [n \in 1..NumPixels |-> <<(n - 1) % FilmWidth, (n - 1) \div FilmWidth>>]
ReverseOf(seq) == [n \in 1..Len(seq) |-> seq[Len(seq) + 1 - n]]

\* the orders pixels are processed in: that of the loops, and another one
\* (as a parallel schedule of the loops would give)
Orders == { Raster, ReverseOf(Raster) }

Scenes2D ==
    { NoScene } \cup
    { sc \in [bad : 0..(NumPixels - 1),
              kind : { "finite", "nan", "inf", "ninf", "discard" },
              liDraws : { 0, 4 }] :
        sc.kind = "discard" => sc.liDraws > 0 }       \* a material sample draws

\* random numbers one sample draws: u, v, Random2D and those of Li
DrawsPerSample(sc) == 4 + sc.liDraws

\* the kind of radiance Li returns at pixel number px: a sample a material
\* discarded on hasNaNs(f) ends its path and leaves L finite
KindAt(sc, px) ==
    IF px # sc.bad THEN "finite"
    ELSE IF sc.kind = "discard" THEN "finite" ELSE sc.kind

\* the final check of RoughConductor::sample and Dielectric::sample:
\* whether the sample is discarded, and the diagnostic lines written
MaterialCheck(fHasNaNs) == [discarded |-> fHasNaNs, lines |-> 0]

\* (a check that only looks for NaN)
HasInvalidValues_NaNOnly(c) == c.kind = "nan"

\* HasInvalidValues: some component is NaN, +Inf or -Inf
HasInvalidValues(c) == c.kind \in { "nan", "inf", "ninf" }

\* the sample loop and the division by m_spp for pixel (i, j), the
\* generator being at position g: the averaged colour
PixelColor(sc, n, i, j, g) ==
    LET px == j * FilmWidth + i
        samples == [s \in 1..n |-> <<i, j, g + (s - 1) * DrawsPerSample(sc)>>]
    IN  IF n = 0 THEN Pixel("nan", <<>>)          \* 0 / 0
        ELSE Pixel(KindAt(sc, px), samples)

\* the NaN removal of render: the colour stored and the lines written
Sanitized(c) ==
    IF HasInvalidValues(c) THEN [color |-> BlackPixel, lines |-> 1]
    ELSE [color |-> c, lines |-> 0]

RenderInit ==
    /\ film = NewFilm
    /\ lastCall = NoCall
    /\ rng = 0
    /\ spp \in 0..MaxSpp
    /\ scene \in Scenes2D
    /\ order \in Orders
    /\ rpc = "idle"
    /\ pixelsDone = 0
    /\ cerr = 0
    /\ detected = 0
    /\ stores = NoStores
    /\ run = 1
    /\ film1 = NoFilm
    /\ procMode \in { "same", "new" }
    /\ IdleExceptRender

\* render is called
RenderBegin ==
    /\ rpc = "idle"
    /\ rpc' = "loop"
    /\ pixelsDone' = 0
    /\ stores' = NoStores
    /\ UNCHANGED <<film, lastCall, rng, spp, scene, order, cerr, detected, run, film1,
                   procMode, otherThanRender>>

\* one pass of the pixel loop body
RenderPixel ==
    /\ rpc = "loop"
    /\ pixelsDone < NumPixels
    /\ LET i == order[pixelsDone + 1][1]
           j == order[pixelsDone + 1][2]
           px == j * FilmWidth + i
           c == PixelColor(scene, spp, i, j, rng)
           inLi == IF px = scene.bad /\ scene.kind = "discard"
                   THEN [n \in 1..spp |-> MaterialCheck(TRUE)]
                   ELSE <<>>
           out == Sanitized(c)
       IN  /\ rng' = rng + spp * DrawsPerSample(scene)
           /\ film' = SetPixel(film, i, FilmHeight - 1 - j, out.color)
           /\ stores' = [stores EXCEPT ![(FilmHeight - 1 - j) * FilmWidth + i] = @ + 1]
           /\ cerr' = cerr + out.lines
                        + (IF Len(inLi) > 0 THEN Len(inLi) * inLi[1].lines ELSE 0)
           /\ detected' = detected + (IF HasInvalidValues(c) THEN 1 ELSE 0) + Len(inLi)
    /\ pixelsDone' = pixelsDone + 1
    /\ UNCHANGED <<lastCall, spp, scene, order, rpc, run, film1, procMode,
                   otherThanRender>>

\* the loops are over: render returns
RenderEnd ==
    /\ rpc = "loop"
    /\ pixelsDone = NumPixels
    /\ rpc' = "done"
    /\ film1' = IF run = 1 THEN film ELSE film1
    /\ UNCHANGED <<film, lastCall, rng, spp, scene, order, pixelsDone, cerr, detected,
                   stores, run, procMode, otherThanRender>>

\* the same scene is rendered again with the same parameters into a new
\* film: by another render call of this process, whose generator goes on
\* where it is, or by a new run of the program, whose generator is seeded
RenderAgain ==
    /\ rpc = "done"
    /\ run = 1
    /\ run' = 2
    /\ rpc' = "idle"
    /\ film' = NewFilm
    /\ rng' = IF procMode = "new" THEN 0 ELSE rng
    /\ cerr' = IF procMode = "new" THEN 0 ELSE cerr
    /\ detected' = IF procMode = "new" THEN 0 ELSE detected
    /\ UNCHANGED <<lastCall, spp, scene, order, pixelsDone, stores, film1, procMode,
                   otherThanRender>>

RenderNext == RenderBegin \/ RenderPixel \/ RenderEnd \/ RenderAgain

SpecRender == RenderInit /\ [][RenderNext]_vars

\* the film a whole render leaves when it processes the pixels in the order
\* ord, the generator being at position g0 when render is called
RECURSIVE RenderedFrom(_, _, _, _, _, _)
RenderedFrom(ord, sc, n, g, f, idx) ==
    IF idx > Len(ord) THEN f
    ELSE LET i == ord[idx][1]
             j == ord[idx][2]
             out == Sanitized(PixelColor(sc, n, i, j, g))
         IN  RenderedFrom(ord, sc, n, g + n * DrawsPerSample(sc),
                          SetPixel(f, i, FilmHeight - 1 - j, out.color), idx + 1)

RenderedFilm(ord, sc, n, g0) == RenderedFrom(ord, sc, n, g0, NewFilm, 1)

\* the pixel the loop body is about to process, and its averaged colour
NextPixel == order[pixelsDone + 1]
NextColor == PixelColor(scene, spp, NextPixel[1], NextPixel[2], rng)
StepsPixel == rpc = "loop" /\ pixelsDone' = pixelsDone + 1

\* C15: in render, a pixel whose averaged colour has a non-finite component
\* is stored as black, a finite colour is stored unchanged, and no
\* non-finite value is ever in the film buffer.
C15_NonFiniteStoredBlack ==
    /\ [](\A n \in DOMAIN film : film[n].kind = "finite")
    /\ [][StepsPixel =>
            PixelAt(film', NextPixel[1], FilmHeight - 1 - NextPixel[2]) =
                IF NextColor.kind \in { "nan", "inf", "ninf" } THEN BlackPixel
                ELSE NextColor]_vars

\* a render finished in which an infinite colour was stored as black and a
\* finite colour was stored as it was
C15_Witness ==
    /\ rpc = "done"
    /\ spp > 0
    /\ scene.kind = "inf"
    /\ film[(FilmHeight - 1 - (scene.bad \div FilmWidth)) * FilmWidth
            + (scene.bad % FilmWidth)] = BlackPixel
    /\ \E n \in DOMAIN film : film[n] # BlackPixel

\* C16: every detection of numerical corruption that sanitizes a value or
\* discards a sample (at the pixel write, at the material checks) produces
\* a diagnostic event: as many diagnostic lines as detections.
C16_EveryDiscardLogged == cerr = detected

C19_Idempotent == (rpc = "done" /\ run = 2) => film = film1

\* ------------------------------------------- main with a failed map load
\* The runs of main in which loadHDR throws: the catch block, the
\* integrator built with the env pointer main is left with, and render,
\* whose samples are computed by the integrator machine (one per pixel).

\* (the pointer a successful load leaves)
EnvAfterFailedLoad_Loaded == "valid"

\* env after the catch block: still the nullptr it was initialized with
EnvAfterFailedLoad == "null"

\* the terms of L that come from the environment map
IsBackground(t) == t.kind \in { "env", "nee" }
Background(radiance) == SelectSeq(radiance, IsBackground)

MainInit ==
    /\ TravIdle /\ BoxIdle /\ GlassIdle /\ UtilIdle
    /\ maxDepth \in 0..MaxDepthBound
    /\ env = "null"
    /\ pc = "idle"
    /\ LiEntry
    /\ film = NewFilm
    /\ lastCall = NoCall
    /\ rng = 0
    /\ spp = 1
    /\ scene = NoScene
    /\ order = Raster
    /\ rpc = "load"
    /\ pixelsDone = 0
    /\ cerr = 0
    /\ detected = 0
    /\ stores = NoStores
    /\ run = 1
    /\ film1 = NoFilm
    /\ procMode = "same"

\* loadHDR throws: the catch block writes two lines, the integrator is
\* constructed with env
MainLoadFails ==
    /\ rpc = "load"
    /\ env' = EnvAfterFailedLoad
    /\ cerr' = cerr + 2
    /\ rpc' = "idle"
    /\ UNCHANGED <<travVars, boxVars, glassVars, utilVars, maxDepth, pc, depth, L, beta, lastPdf,
                   lastSpecular, hasLastBsdf, curRay, hitMemo, curRec, bsdfSample,
                   neeDraw, count, film, lastCall, rng, spp, scene, order, pixelsDone,
                   detected, stores, run, film1, procMode>>

\* the sample loop of the next pixel calls Li
MainCallLi ==
    /\ rpc = "loop"
    /\ pc = "idle"
    /\ pixelsDone < NumPixels
    /\ pc' = "loop"
    /\ depth' = 0 /\ L' = <<>> /\ beta' = White
    /\ lastPdf' = 0 /\ lastSpecular' = FALSE /\ hasLastBsdf' = FALSE
    /\ curRay' = 0 /\ hitMemo' = NoMemo /\ curRec' = NoHit
    /\ bsdfSample' = NoSample /\ neeDraw' = NoDraw /\ count' = ZeroCount
    /\ UNCHANGED <<maxDepth, env, otherThanLi>>

\* Li has returned: the pixel is averaged, checked and stored
MainStorePixel ==
    /\ rpc = "loop"
    /\ pc = "done"
    /\ LET i == order[pixelsDone + 1][1]
           j == order[pixelsDone + 1][2]
           out == Sanitized(Pixel("finite", Background(L)))
       IN  /\ film' = SetPixel(film, i, FilmHeight - 1 - j, out.color)
           /\ stores' = [stores EXCEPT ![(FilmHeight - 1 - j) * FilmWidth + i] = @ + 1]
           /\ cerr' = cerr + out.lines
    /\ pixelsDone' = pixelsDone + 1
    /\ pc' = "idle"
    /\ UNCHANGED <<travVars, boxVars, glassVars, utilVars, maxDepth, env, depth, L, beta, lastPdf,
                   lastSpecular, hasLastBsdf, curRay, hitMemo, curRec, bsdfSample,
                   neeDraw, count, lastCall, rng, spp, scene, order, rpc, detected,
                   run, film1, procMode>>

MainNext ==
    \/ MainLoadFails
    \/ RenderBegin
    \/ MainCallLi
    \/ LiLoopExit
    \/ LiIntersect
    \/ LiEmit
    \/ LiNEE
    \/ LiSample
    \/ MainStorePixel
    \/ RenderEnd

\* the program is one thread that keeps running
SpecMain == MainInit /\ [][MainNext]_vars /\ WF_vars(MainNext)

\* C20: when the environment map fails to load, the integrator runs
\* without a map, every miss leaves L as it is, next-event estimation draws
\* no environment sample and leaves L as it is, and render comes to its end
\* with every pixel written once, none holding an environment term.
C20_BlackBackgroundFallback ==
    /\ [](rpc # "load" => env = "null")
    /\ [][(pc = "loop" /\ hitMemo'.traced /\ ~hitMemo'.hit /\ count' # count)
            => (pc' = "done" /\ L' = L)]_vars
    /\ [][pc = "nee"
            => (L' = L /\ count'.envSample = count.envSample
                       /\ count'.shadow = count.shadow)]_vars
    /\ [](rpc = "done" =>
            \A loc \in DOMAIN film : stores[loc] = 1 /\ film[loc] = BlackPixel)
    /\ <>(rpc = "done")

\* the render after a failed load is over, every pixel written; the last
\* path hit a surface, passed next-event estimation and then missed
C20_Witness ==
    /\ rpc = "done"
    /\ cerr = 2
    /\ \A loc \in DOMAIN stores : stores[loc] = 1
    /\ hitMemo.traced /\ ~hitMemo.hit
    /\ count.iter >= 2
    /\ L # <<>>

\* ------------------------------------------------------------- rationals
\* float values of the distributions, kept exact: <<p, q>> is p / q, q > 0,
\* in lowest terms
RECURSIVE Gcd(_, _)
Gcd(a, b) == IF b = 0 THEN a ELSE Gcd(b, a % b)

Rat(p, q) ==
    LET g == Gcd(Abs(p), q)
    IN  IF p = 0 THEN <<0, 1>> ELSE <<p \div g, q \div g>>

RZero == <<0, 1>>
ROne == <<1, 1>>
RAdd(a, b) == Rat(a[1] * b[2] + b[1] * a[2], a[2] * b[2])
RSub(a, b) == Rat(a[1] * b[2] - b[1] * a[2], a[2] * b[2])
RMul(a, b) == Rat(a[1] * b[1], a[2] * b[2])
\* a / b for b > 0
RDiv(a, b) == Rat(a[1] * b[2], a[2] * b[1])
RLt(a, b) == a[1] * b[2] < b[1] * a[2]
RLe(a, b) == a[1] * b[2] <= b[1] * a[2]
RMin(a, b) == IF RLt(b, a) THEN b ELSE a
\* int(a) for a >= 0
RFloor(a) == a[1] \div a[2]
Clamp(x, lo, hi) == IF x < lo THEN lo ELSE IF x > hi THEN hi ELSE x

\* -------------------------------------------------------- Distribution1D
\* func[i] of the code is func[i + 1] here, cdf[i] is cdf[i + 1]
MaxBins == 3
\* function values are 0..MaxFunc
MaxFunc == 2
\* random numbers are the multiples of 1 / UGrid in [0, 1]
UGrid == 4

\* 0.99999994f, the largest float below 1: below 1 and above every other
\* random number and every CDF value below 1
BelowOne == <<999, 1000>>

RECURSIVE PrefixSum(_, _)
PrefixSum(f, m) == IF m = 0 THEN RZero ELSE RAdd(PrefixSum(f, m - 1), f[m])

\* (a constructor that leaves the CDF as accumulated)
NormalizedCdf_Raw(raw, funcInt, n) == raw

\* the normalization loops of the constructor; cdf[0] is not touched
NormalizedCdf(raw, funcInt, n) ==
    [m \in 1..(n + 1) |->
        IF m = 1 THEN raw[1]
        ELSE IF funcInt = RZero THEN Rat(m - 1, n)
        ELSE RDiv(raw[m], funcInt)]

\* Distribution1D(f, n)
MkDist1D(f) ==
    LET n == Len(f)
        raw == [m \in 1..(n + 1) |-> RDiv(PrefixSum(f, m - 1), <<n, 1>>)]
        funcInt == raw[n + 1]
    IN  [func |-> f, cdf |-> NormalizedCdf(raw, funcInt, n), funcInt |-> funcInt]

\* (std::lower_bound: the first element not below u)
UpperBound_Lower(c, u) ==
    IF \E m \in 1..Len(c) : RLe(u, c[m])
    THEN (CHOOSE m \in 1..Len(c) :
            RLe(u, c[m]) /\ \A m2 \in 1..(m - 1) : ~RLe(u, c[m2])) - 1
    ELSE Len(c)

\* std::upper_bound(cdf.begin(), cdf.end(), u) - cdf.begin(): the position
\* of the first element above u, the size when there is none
UpperBound(c, u) ==
    IF \E m \in 1..Len(c) : RLt(u, c[m])
    THEN (CHOOSE m \in 1..Len(c) :
            RLt(u, c[m]) /\ \A m2 \in 1..(m - 1) : ~RLt(u, c[m2])) - 1
    ELSE Len(c)

\* sampleContinuous(u, pdf, off): pdf, off and the returned coordinate
SampleContinuous(d, u0) ==
    LET n == Len(d.func)
        u == RMin(u0, BelowOne)
        offset == Clamp(UpperBound(d.cdf, u) - 1, 0, n - 1)
        pdf == IF RLt(RZero, d.funcInt) THEN RDiv(d.func[offset + 1], d.funcInt)
               ELSE ROne
        du0 == RSub(u, d.cdf[offset + 1])
        denom == RSub(d.cdf[offset + 2], d.cdf[offset + 1])
        du == IF RLt(RZero, denom) THEN RDiv(du0, denom) ELSE RZero
    IN  [pdf |-> pdf, off |-> offset,
         x |-> RDiv(RAdd(<<offset, 1>>, du), <<n, 1>>)]

\* -------------------------------------------------------- Distribution2D
\* Distribution2D(data, width, height): data is given by rows
MkDist2D(data) ==
    LET cond == [v \in 1..Len(data) |-> MkDist1D(data[v])]
        marginalFunc == [v \in 1..Len(data) |-> cond[v].funcInt]
    IN  [pConditionalV |-> cond, pMarginal |-> MkDist1D(marginalFunc)]

\* sampleContinuous(u, uv, pdf)
Sample2D(d, u) ==
    LET sv == SampleContinuous(d.pMarginal, u[2])
        su == SampleContinuous(d.pConditionalV[sv.off + 1], u[1])
    IN  [uv |-> <<su.x, sv.x>>, pdf |-> RMul(su.pdf, sv.pdf)]

\* (a pdf that does not handle the all-black image)
Pdf2D_NoBlackCase(d, uv) ==
    LET height == Len(d.pMarginal.func)
        width == Len(d.pConditionalV[1].func)
        v == Clamp(RFloor(RMul(uv[2], <<height, 1>>)), 0, height - 1)
        u == Clamp(RFloor(RMul(uv[1], <<width, 1>>)), 0, width - 1)
    IN  IF d.pConditionalV[v + 1].funcInt = RZero THEN RZero
        ELSE RMul(RDiv(d.pMarginal.func[v + 1], d.pMarginal.funcInt),
                  RDiv(d.pConditionalV[v + 1].func[u + 1],
                       d.pConditionalV[v + 1].funcInt))

\* pdf(uv)
Pdf2D(d, uv) ==
    LET height == Len(d.pMarginal.func)
        width == Len(d.pConditionalV[1].func)
        v == Clamp(RFloor(RMul(uv[2], <<height, 1>>)), 0, height - 1)
        u == Clamp(RFloor(RMul(uv[1], <<width, 1>>)), 0, width - 1)
    IN  IF d.pMarginal.funcInt = RZero THEN ROne
        ELSE IF d.pConditionalV[v + 1].funcInt = RZero THEN RZero
        ELSE RMul(RDiv(d.pMarginal.func[v + 1], d.pMarginal.funcInt),
                  RDiv(d.pConditionalV[v + 1].func[u + 1],
                       d.pConditionalV[v + 1].funcInt))

\* ------------------------------------------- the distribution machine
FuncValues == { <<x, 1>> : x \in 0..MaxFunc }
Funcs == UNION { [1..n -> FuncValues] : n \in 1..MaxBins }
Images == UNION { [1..h -> [1..w -> FuncValues]] : h \in 1..2, w \in 1..2 }
Randoms == { Rat(m, UGrid) : m \in 0..UGrid }

\* a Distribution1D or a Distribution2D has been constructed
DistInit ==
    /\ \/ dist1 \in { MkDist1D(f) : f \in Funcs } /\ dist2 = NoDist2
       \/ dist1 = NoDist1 /\ dist2 \in { MkDist2D(img) : img \in Images }
    /\ out1 = NoOut1
    /\ out2 = NoOut2
    /\ IorIdle
    /\ MisIdle /\ CtorIdle
    /\ IdleExceptUtil

\* sampleContinuous is const: the first call from every constructed
\* distribution covers every call
Dist1Sample ==
    /\ dist1 # NoDist1
    /\ ~out1.called
    /\ \E u \in Randoms :
         LET res == SampleContinuous(dist1, u)
         IN  out1' = [called |-> TRUE, u |-> u, pdf |-> res.pdf, off |-> res.off,
                      x |-> res.x]
    /\ UNCHANGED <<dist1, dist2, out2, n_map, k_map, data_, mis, ctor, otherThanUtil>>

Dist2Sample ==
    /\ dist2 # NoDist2
    /\ ~out2.called
    /\ \E u \in Randoms \X Randoms :
         LET res == Sample2D(dist2, u)
         IN  out2' = [called |-> TRUE, u |-> u, uv |-> res.uv, pdf |-> res.pdf,
                      evaluated |-> FALSE, pdfAt |-> RZero]
    /\ UNCHANGED <<dist1, out1, dist2, n_map, k_map, data_, mis, ctor, otherThanUtil>>

\* pdf(uv) at the uv the last sampleContinuous returned
Dist2Pdf ==
    /\ out2.called
    /\ ~out2.evaluated
    /\ out2' = [out2 EXCEPT !.evaluated = TRUE, !.pdfAt = Pdf2D(dist2, out2.uv)]
    /\ UNCHANGED <<dist1, out1, dist2, n_map, k_map, data_, mis, ctor, otherThanUtil>>

DistNext == Dist1Sample \/ Dist2Sample \/ Dist2Pdf

SpecDist == DistInit /\ [][DistNext]_vars

\* C21: a Distribution1D built from n >= 1 non-negative values has
\* cdf[0] = 0, a non-decreasing CDF and cdf[n] = 1; when the function
\* integrates to zero the CDF is cdf[i] = i / n and sampling reports pdf 1.
C21_CdfNormalized ==
    dist1 # NoDist1 =>
        LET n == Len(dist1.func)
        IN  /\ dist1.cdf[1] = RZero
            /\ \A m \in 1..n : RLe(dist1.cdf[m], dist1.cdf[m + 1])
            /\ dist1.cdf[n + 1] = ROne
            /\ dist1.funcInt = RZero =>
                 /\ \A m \in 1..(n + 1) : dist1.cdf[m] = Rat(m - 1, n)
                 /\ out1.called => out1.pdf = ROne

\* a distribution of MaxBins zero values has been sampled
C21_Witness ==
    /\ out1.called
    /\ Len(dist1.func) = MaxBins
    /\ dist1.funcInt = RZero

\* C29: on a distribution with positive integral sampleContinuous(u), u in
\* [0, 1], returns a bin off in [0, n - 1] with a non-zero function value,
\* the pdf func[off] / funcInt > 0, and a coordinate in [0, 1] inside bin off.
C29_SampleInBin ==
    (out1.called /\ RLt(RZero, dist1.funcInt)) =>
        LET n == Len(dist1.func)
        IN  /\ out1.off \in 0..(n - 1)
            /\ dist1.func[out1.off + 1] # RZero
            /\ out1.pdf = RDiv(dist1.func[out1.off + 1], dist1.funcInt)
            /\ RLt(RZero, out1.pdf)
            /\ RLe(RZero, out1.x) /\ RLe(out1.x, ROne)
            /\ RLe(Rat(out1.off, n), out1.x)
            /\ RLe(out1.x, Rat(out1.off + 1, n))

\* u = 0 and u = 1 were sampled on a distribution whose first and last
\* bins are zero
C29_Witness ==
    /\ out1.called
    /\ out1.u \in { RZero, ROne }
    /\ RLt(RZero, dist1.funcInt)
    /\ dist1.func[1] = RZero
    /\ dist1.func[Len(dist1.func)] = RZero

\* C30: the pdf Distribution2D::sampleContinuous(u) returns equals pdf(uv)
\* at the uv it returned, the all-black image included, where both are 1.
C30_SamplePdfConsistent ==
    (out2.called /\ out2.evaluated) =>
        /\ out2.pdfAt = out2.pdf
        /\ dist2.pMarginal.funcInt = RZero => out2.pdf = ROne

\* both were evaluated on an image with a black row and a black pixel in
\* the other row
C30_Witness ==
    /\ out2.called /\ out2.evaluated
    /\ Len(dist2.pConditionalV) = 2
    /\ dist2.pConditionalV[1].funcInt = RZero
    /\ Len(dist2.pConditionalV[2].func) = 2
    /\ dist2.pConditionalV[2].func[1] = RZero
    /\ out2.pdf # ROne

\* ------------------------------------------------------- IORInterpolator
\* loadCSV after the file has been read into n_map and k_map.  Wavelengths
\* are in quarter nanometres, 0..MaxWl.
MaxWl == 7
\* the 1.0 nm of the nearest-neighbour search
KTolerance == 4

\* the k value of the row at wavelength w (each row a value of its own)
KRow(w) == w + 1
NRow(w) == 1

\* k_map.lower_bound(wl): the first key not below wl; -1 stands for end()
LowerBoundKey(m, wl) ==
    IF \E w \in DOMAIN m : w >= wl
    THEN CHOOSE w \in DOMAIN m : w >= wl /\ \A w2 \in DOMAIN m : w2 >= wl => w <= w2
    ELSE -1

\* std::prev(it): the last key below wl; defined when it != begin()
PrevKey(m, wl) == CHOOSE w \in DOMAIN m : w < wl /\ \A w2 \in DOMAIN m : w2 < wl => w2 <= w

\* the k value merged with the n row at wl
MergedK(m, wl) ==
    IF wl \in DOMAIN m THEN m[wl]
    ELSE LET it == LowerBoundKey(m, wl)
         IN  IF it # -1 /\ Abs(it - wl) < KTolerance THEN m[it]
             ELSE IF \E w \in DOMAIN m : w < wl              \* it != begin()
                  THEN (IF Abs(PrevKey(m, wl) - wl) < KTolerance
                        THEN m[PrevKey(m, wl)] ELSE 0)
                  ELSE 0

\* the keys of a map in iteration order
RECURSIVE KeysInOrder(_)
KeysInOrder(S) ==
    IF S = {} THEN <<>>
    ELSE LET lo == CHOOSE w \in S : \A w2 \in S : w <= w2
         IN  <<lo>> \o KeysInOrder(S \ {lo})

\* the merge loop and the sort by wavelength (the loop appends in key order)
MergedData(nm, km) ==
    LET keys == KeysInOrder(DOMAIN nm)
    IN  [i \in 1..Len(keys) |->
            [wavelength |-> keys[i], n |-> nm[keys[i]], k |-> MergedK(km, keys[i])]]

\* the file has been read: one or two n rows, any k rows
IorInit ==
    /\ \E ws \in SUBSET (0..MaxWl) :
         /\ Cardinality(ws) \in 1..2
         /\ n_map = [w \in ws |-> NRow(w)]
    /\ \E ws \in SUBSET (0..MaxWl) : k_map = [w \in ws |-> KRow(w)]
    /\ data_ = <<>>
    /\ DistIdle
    /\ MisIdle /\ CtorIdle
    /\ IdleExceptUtil

IorMerge ==
    /\ data_ = <<>>
    /\ data_' = MergedData(n_map, k_map)
    /\ UNCHANGED <<dist1, out1, dist2, out2, n_map, k_map, mis, ctor, otherThanUtil>>

IorNext == IorMerge

SpecIor == IorInit /\ [][IorNext]_vars

\* the k wavelengths nearest to wl
NearestK(wl) ==
    { w \in DOMAIN k_map : \A w2 \in DOMAIN k_map : Abs(w - wl) <= Abs(w2 - wl) }

\* C22: an n row whose wavelength has no exactly matching k row is paired
\* with the k value of the nearest k wavelength when that lies within the
\* tolerance window, and with 0 when no k wavelength lies within it.
C22_NearestKWithinTolerance ==
    \A i \in 1..Len(data_) :
        LET wl == data_[i].wavelength
        IN  wl \notin DOMAIN k_map =>
              IF \E w \in DOMAIN k_map : Abs(w - wl) < KTolerance
              THEN \E w \in NearestK(wl) : data_[i].k = k_map[w]
              ELSE data_[i].k = 0

\* ----------------------------------------------- claims on AABB::intersect
\* the parameters t at which the ray is between the two planes of axis k,
\* for a non-zero direction component: from SlabEntry to SlabExit
SlabEntry(box, r, k) ==
    IF r.d[k] > 0 THEN ((box.min[k] - r.o[k]) * r.dScale) \div r.d[k]
    ELSE ((box.max[k] - r.o[k]) * r.dScale) \div r.d[k]
SlabExit(box, r, k) ==
    IF r.d[k] > 0 THEN ((box.max[k] - r.o[k]) * r.dScale) \div r.d[k]
    ELSE ((box.min[k] - r.o[k]) * r.dScale) \div r.d[k]

\* some t in [tMin, tMax] puts o + t * d inside the box (tMax = INFINITY_VAL
\* is no upper limit)
PassesThrough(box, r, iv) ==
    /\ \A k \in 1..3 : box.min[k] <= box.max[k]
    /\ \A k \in 1..3 : r.d[k] = 0 => (box.min[k] <= r.o[k] /\ r.o[k] <= box.max[k])
    /\ LET axes == { k \in 1..3 : r.d[k] # 0 }
           lowers == { iv.tMin } \cup { SlabEntry(box, r, k) : k \in axes }
           uppers == (IF iv.tMax = INFINITY_VAL THEN {} ELSE { iv.tMax })
                        \cup { SlabExit(box, r, k) : k \in axes }
       IN  \A lo \in lowers, hi \in uppers : lo <= hi

\* C23: AABB::intersect returns true whenever some t in [tMin, tMax] puts
\* o + t * d inside the box, for every direction, those with components of
\* very small non-zero magnitude included.
C23_NoFalseNegative ==
    (aabbOut.op = "intersect" /\ PassesThrough(aabb, aabbRay, aabbIv))
        => aabbOut.result

\* C24: HittableList::bounds() on an empty list is the empty AABB: uniting
\* it with a box b, on either side, gives b, and no ray intersects it.
C24_EmptyListBounds ==
    aabb = ListBounds(<<>>) =>
        /\ aabbOut.op = "unite" => (aabbOut.ab = aabbOut.b /\ aabbOut.ba = aabbOut.b)
        /\ aabbOut.op = "intersect" => ~aabbOut.result

\* ------------------------------------- further claims on the integrator
\* C25: along one path the self-emission of one intersection (the same ray
\* and hit) is added to L in one loop iteration only: no two non-black
\* emission terms of L belong to the same ray.
C25_EmissionOncePerVertex ==
    \A i \in 1..Len(L), j \in 1..Len(L) :
        (i < j /\ L[i].kind = "emit" /\ L[j].kind = "emit"
               /\ ~IsBlack(L[i].value) /\ ~IsBlack(L[j].value))
            => L[i].ray # L[j].ray

\* sample() of the material returns lobes, and specular-flagged ones only
OnlySpecularLobes(m) ==
    /\ \E bs \in SampleOutcomes(m) : bs.valid
    /\ \A bs \in SampleOutcomes(m) : bs.valid => IsSpecular(bs)

\* C26: at every hit, isSpecular() of the material is true exactly when its
\* sample() returns only specular-flagged lobes, and next-event estimation
\* has drawn an environment sample exactly when there is an environment
\* map and the material is not a pure-delta one.
C26_SpecularClassificationAgrees ==
    /\ (pc \in { "emit", "nee", "sample" } /\ \E bs \in SampleOutcomes(curRec.mat) : bs.valid)
          => (MatIsSpecular(curRec.mat) <=> OnlySpecularLobes(curRec.mat))
    /\ pc = "sample"
          => (neeDraw.sampled <=> (env # "null" /\ curRec.mat \notin DeltaMaterials))

\* ------------------------------------------------- the MIS weight machine
\* One direction with BSDF pdf a and environment pdf b, weighted on both
\* sides of Li: by next-event estimation, which sampled it from the
\* environment, and by the miss branch, which reached it by BSDF sampling.
MaxPdf == 7

MisInit ==
    /\ \E a \in 0..MaxPdf, b \in 0..MaxPdf : mis = [NoMis EXCEPT !.a = a, !.b = b]
    /\ DistIdle
    /\ IorIdle
    /\ CtorIdle
    /\ IdleExceptUtil

\* the weight of each side; NEE weighs only directions with pdfEnv > 0, the
\* miss branch only after a BSDF sample, whose pdf is > 0
MisWeigh ==
    /\ ~mis.weighed
    /\ mis' = [mis EXCEPT !.weighed = TRUE,
                          !.nee = IF mis.b > 0 THEN NeeWeight(mis.b, mis.a) ELSE <<0, 1>>,
                          !.miss = IF mis.a > 0 THEN MissWeight(mis.a, mis.b) ELSE <<0, 1>>]
    /\ UNCHANGED <<dist1, out1, dist2, out2, n_map, k_map, data_, ctor, otherThanUtil>>

MisNext == MisWeigh

SpecMis == MisInit /\ [][MisNext]_vars

\* C28: for a direction with BSDF pdf a > 0 and environment pdf b > 0 the
\* next-event weight is b^2 / (a^2 + b^2), the miss weight a^2 / (a^2 + b^2)
\* and their sum is 1; when exactly one pdf is 0 the strategy that can
\* generate the direction has weight 1.
C28_MisWeightsComplementary ==
    mis.weighed =>
        /\ (mis.a > 0 /\ mis.b > 0) =>
              /\ mis.nee = <<mis.b * mis.b, mis.a * mis.a + mis.b * mis.b>>
              /\ mis.miss = <<mis.a * mis.a, mis.a * mis.a + mis.b * mis.b>>
              /\ RAdd(mis.nee, mis.miss) = ROne
        /\ (mis.a = 0 /\ mis.b > 0) => mis.nee = One
        /\ (mis.a > 0 /\ mis.b = 0) => mis.miss = One

\* both weights of a direction with two different positive pdfs
C28_Witness ==
    /\ mis.weighed
    /\ mis.a > 0 /\ mis.b > mis.a

\* ------------------------------------------------- BVHNode constructor calls
\* The constructor as the sequence of calls it makes. An object is kept as
\* the coordinate of its centroid along the split axis (all centroids lie on
\* one line, so every call chooses the same axis); that coordinate is all
\* the sort and the choice of mid depend on.
\* the object list has at most MaxObjs objects
MaxObjs == 4
\* the number of nested constructor calls the call stack has room for
StackLimit == 6
CentroidKeys == { 0, 1 }

\* std::sort(objects.begin() + start, objects.begin() + end, cmp): the keys of
\* the positions start .. end - 1 (counted from 0) in ascending order
SortRange(objs, start, end) ==
    LET span == end - start
        Count(t, k) == Cardinality({ i \in 1..span : t[i] = k })
        sorted == CHOOSE t \in [1..span -> CentroidKeys] :
                     /\ \A i \in 1..span - 1 : t[i] <= t[i + 1]
                     /\ \A k \in CentroidKeys :
                           Count(t, k) = Count([i \in 1..span |-> objs[start + i]], k)
    IN  [i \in 1..Len(objs) |->
            IF start < i /\ i <= end THEN sorted[i - start] ELSE objs[i]]

\* one constructor call in progress: its range and how far its body has got
Frame(start, end) == [start |-> start, end |-> end, at |-> "entry"]

\* a call of the constructor from inside the constructor: a new frame on the
\* call stack, or the end of the process where the stack has no room left
Enter(c, caller, f) ==
    IF Len(caller) >= StackLimit
    THEN [c EXCEPT !.stack = caller, !.status = "overflow"]
    ELSE [c EXCEPT !.stack = Append(caller, f),
                   !.deepest = IF Len(caller) + 1 > c.deepest
                               THEN Len(caller) + 1 ELSE c.deepest]

Top == ctor.stack[Len(ctor.stack)]
Callers == SubSeq(ctor.stack, 1, Len(ctor.stack) - 1)

CtorInit ==
    /\ \E n \in 0..MaxObjs :
          \E objs \in [1..n -> CentroidKeys], start \in 0..n, end \in 0..n :
             /\ start <= end
             /\ ctor = [NoCtor EXCEPT !.objs = objs, !.start = start, !.end = end]
    /\ DistIdle
    /\ IorIdle
    /\ MisIdle
    /\ IdleExceptUtil

\* BVHNode(objects, start, end) called by the client
CtorCall ==
    /\ ctor.status = "idle"
    /\ ctor' = [ctor EXCEPT !.status = "running",
                            !.stack = << Frame(ctor.start, ctor.end) >>,
                            !.deepest = 1]
    /\ UNCHANGED <<dist1, out1, dist2, out2, n_map, k_map, data_, mis, otherThanUtil>>

\* the body up to the construction of the left child: the leaf cases
\* span == 1 and span == 2, else the sort and the first recursive call
CtorBody ==
    /\ ctor.status = "running"
    /\ Top.at = "entry"
    /\ LET span == Top.end - Top.start
           mid == Top.start + span \div 2
       IN  IF span = 1 \/ span = 2
           THEN ctor' = [ctor EXCEPT !.stack[Len(ctor.stack)].at = "unite"]
           ELSE ctor' = Enter([ctor EXCEPT
                                 !.objs = SortRange(ctor.objs, Top.start, Top.end)],
                              Append(Callers, [Top EXCEPT !.at = "left"]),
                              Frame(Top.start, mid))
    /\ UNCHANGED <<dist1, out1, dist2, out2, n_map, k_map, data_, mis, otherThanUtil>>

\* the left child is built: the second recursive call
CtorRight ==
    /\ ctor.status = "running"
    /\ Top.at = "left"
    /\ LET span == Top.end - Top.start
           mid == Top.start + span \div 2
       IN  ctor' = Enter(ctor, Append(Callers, [Top EXCEPT !.at = "right"]),
                         Frame(mid, Top.end))
    /\ UNCHANGED <<dist1, out1, dist2, out2, n_map, k_map, data_, mis, otherThanUtil>>

\* the box is consolidated and the constructor returns
CtorReturn ==
    /\ ctor.status = "running"
    /\ Top.at \in { "unite", "right" }
    /\ ctor' = [ctor EXCEPT !.stack = Callers,
                            !.status = IF Callers = <<>> THEN "done" ELSE "running"]
    /\ UNCHANGED <<dist1, out1, dist2, out2, n_map, k_map, data_, mis, otherThanUtil>>

CtorNext == CtorCall \/ CtorBody \/ CtorRight \/ CtorReturn

SpecCtor == CtorInit /\ [][CtorNext]_vars

\* the least d with 2^d >= n
RECURSIVE CeilLog2(_)
CeilLog2(n) == IF n <= 1 THEN 0 ELSE 1 + CeilLog2((n + 1) \div 2)

\* the range has at least one object
NonEmptyRange == ctor.start < ctor.end

\* C27: the constructor terminates for every range [start, end) with
\* start <= end, the empty range included: no chain of nested constructor
\* calls outgrows the call stack, and the nesting of the calls stays within
\* the logarithm of the range size (plus the outermost call).
C27_ConstructorTerminates ==
    /\ ctor.status # "overflow"
    /\ ctor.deepest <= CeilLog2(ctor.end - ctor.start) + 1

\* the same for the ranges that hold at least one object
C27_NonEmptyTerminates == NonEmptyRange => C27_ConstructorTerminates

\* a construction over a non-empty range always returns
C27_NonEmptyReturns == (NonEmptyRange /\ ctor.status = "idle") ~> ctor.status = "done"

\* a construction over the empty range never returns
C27_EmptyNeverReturns == ~NonEmptyRange => ctor.status # "done"

\* a construction over the largest range has returned
C27_Built == ctor.status = "done" /\ ctor.end - ctor.start = MaxObjs

SpecCtorFair == SpecCtor /\ WF_vars(CtorNext)

====
